---- MODULE Spec2Model ----
(***************************************************************************)
(* Model of the meow counter: the SQLite counter store of                  *)
(* src/meow_bot.py (MeowDatabase), the coordinator's pending queue of      *)
(* src/main.py and the consumer's poll loop of src/meow_bot.py.            *)
(***************************************************************************)
EXTENDS Integers, Sequences, FiniteSets, TLC

(***************************************************************************)
(* Bounds of the model.                                                    *)
(***************************************************************************)
MaxAmount == 2
MaxCalls == 2
MaxEnqueues == 2       \* enqueue requests accepted in one behaviour
MaxFine == 1           \* clock instants sampled on each side of a landmark
TicksPerSec == 2       \* clock resolution: time.time() is fractional
FutureStamp == 100000  \* a numeric 'timestamp' field in an add-channel body
MaxResponse == 2       \* channels in one pending-channels response
MaxPolls == 3          \* poll cycles sampled
MaxFileAdds == 1       \* add_channel_to_join_list calls in one behaviour
MaxMsgs == 2           \* chat messages dispatched in one behaviour
MaxPieces == 3         \* pieces of a counted text
MaxLimit == 2          \* the limit of a leaderboard query

(***************************************************************************)
(* Program constants.                                                      *)
(***************************************************************************)
Retention == 300            \* seconds an entry stays in pending_channels
ProcessedRetention == 3600  \* seconds a processed_channels record is kept
PollInterval == 30          \* seconds between two polls of the consumer
Cooldown == 5               \* seconds between two acknowledgements in a channel

Users == {"u1", "u2"}
Channels == {"foo", "bar"}
Callers == {"p1", "p2"}
Amounts == 1..MaxAmount

None == "none"
SubUpdates == {"user", "channel", "global"}

VARIABLES
    user_meows,          \* committed table user_meows: (user, channel) -> meow_count
    streamer_totals,     \* committed table streamer_totals: channel -> total_meows
    user_global_stats,   \* committed table user_global_stats: user -> [total_meows, channels_count]
    db_lock,             \* caller holding SQLite's write lock, or None
    work,                \* uncommitted tables of the open write transaction
    call,                \* per caller: position in add_meow and its arguments
    applied,             \* per caller: sub-updates of the current call that are committed
    passed,              \* history: sum of the amounts passed per (user, channel)
    ncalls               \* history: number of add_meow calls issued

storeVars == <<user_meows, streamer_totals, user_global_stats, db_lock, work,
               call, applied, passed, ncalls>>

VARIABLES
    now,                 \* time.time() of the coordinator, in ticks
    lists,               \* the list objects of the coordinator: id -> contents
    pending_channels,    \* the global pending_channels: id of its list object
    processed_channels,  \* the global processed_channels
    enq,                 \* per enqueue handler (authorize-bot, add-channel): position, entry, list held
    drn,                 \* per pending-channels handler: position and locals
    enqueued,            \* history: entries appended so far
    returned,            \* history: ids of the entries some 200 response carried
    nenq                 \* history: number of enqueue requests accepted

queueVars == <<now, lists, pending_channels, processed_channels, enq, drn,
               enqueued, returned, nenq>>

VARIABLES
    bot,                 \* poll_railway: position, the channels of the response, loop index, wake-up time
    poll_processed,      \* poll_railway's local set processed_channels
    connected_channels,  \* names of self.connected_channels
    joins_pending,       \* join_new_channel coroutines scheduled on the event loop, per channel
    channel_settings,    \* table channel_settings: channel -> row
    join_calls,          \* history: joins the poll loop has issued, per channel
    approve_writes,      \* history: approval rows the poll loop has written, per channel
    redelivered,         \* history: channels a later delivery of which was skipped
    failed_before,       \* history: channels whose join had failed when the current response arrived
    attempted            \* history: channels joined while processing the current response

botVars == <<bot, poll_processed, connected_channels, joins_pending, channel_settings,
             join_calls, approve_writes, redelivered, failed_before, attempted>>

VARIABLES
    join_file,           \* lines of ./channels_to_join.txt
    watcher,             \* start_channel_watcher's thread: position, channels read, loop index
    watch_joins,         \* history: joins the watcher has issued, per channel
    watch_writes,        \* history: approval rows the watcher has written, per channel
    file_adds            \* history: add_channel_to_join_list calls, per channel

watchVars == <<join_file, watcher, watch_joins, watch_writes, file_adds>>

VARIABLES
    boot,                \* the bot process: up or down, and what init_database found
    tables,              \* tables present in meow_counts.db
    columns,             \* columns of the table channel_settings
    legacy_opt_in,       \* channels whose global_leaderboard_opt_in is 1
    loaded               \* the last result of load_approved_channels_from_db

bootVars == <<boot, tables, columns, legacy_opt_in, loaded>>

VARIABLES
    msgs,                \* per event_message task: position, the message, locals
    rate_limiter,        \* self.rate_limiter: channel -> time of the last acknowledgement
    replies,             \* history: acknowledgements sent: channel, time, message
    record_calls,        \* history: the add_meow calls event_message has made
    inbox                \* history: the messages dispatched, in order

ingestVars == <<msgs, rate_limiter, replies, record_calls, inbox>>

VARIABLES
    text,                \* an input of _count_overlapping_meows
    counted              \* its result for text, -1 before the call

countVars == <<text, counted>>

VARIABLES
    rejoin,              \* join_approved_channels: position, channels_to_join, current_channels
    rejoin_attempts      \* history: join_new_channel calls of join_approved_channels, per channel

rejoinVars == <<rejoin, rejoin_attempts>>

VARIABLES
    board,               \* the last call of get_global_leaderboard: limit and result
    access               \* the last call of has_global_access: channel and result

readVars == <<board, access>>

vars == <<storeVars, queueVars, botVars, watchVars, bootVars, ingestVars, countVars, rejoinVars, readVars>>

(***************************************************************************)
(* Tables are functions whose domain is the set of rows present.           *)
(***************************************************************************)
EmptyTable == [k \in {} |-> 0]

RECURSIVE SumOver(_, _)
SumOver(f, S) ==
    IF S = {} THEN 0
    ELSE LET k == CHOOSE x \in S : TRUE IN f[k] + SumOver(f, S \ {k})

\* SELECT meow_count ... ; result[0] if result else 0
MeowCount(um, u, c) == IF <<u, c>> \in DOMAIN um THEN um[<<u, c>>] ELSE 0
TotalMeows(st, c) == IF c \in DOMAIN st THEN st[c] ELSE 0
GlobalTotal(ug, u) == IF u \in DOMAIN ug THEN ug[u].total_meows ELSE 0

\* INSERT ... VALUES (key, n) ON CONFLICT(key) DO UPDATE SET count = count + n
UpsertOverwrite(t, k, n) ==
    IF k \in DOMAIN t THEN [t EXCEPT ![k] = n] ELSE t @@ (k :> n)
Upsert(t, k, n) ==
    IF k \in DOMAIN t THEN [t EXCEPT ![k] = @ + n] ELSE t @@ (k :> n)

\* INSERT INTO user_global_stats (.., total_meows, channels_count, ..) VALUES (?, n, 1, ..)
\* ON CONFLICT(user_id) DO UPDATE SET total_meows = total_meows + n
UpsertGlobal(ug, u, n) ==
    IF u \in DOMAIN ug
    THEN [ug EXCEPT ![u].total_meows = @ + n]
    ELSE ug @@ (u :> [total_meows |-> n, channels_count |-> 1])

\* SELECT COUNT(DISTINCT channel) FROM user_meows WHERE user_id = ?
ChannelsCount(um, u) == Cardinality({k[2] : k \in {x \in DOMAIN um : x[1] = u}})

IdleCall == [pc |-> "idle", user |-> None, channel |-> None, count |-> 0]
NoWork == [user_meows |-> EmptyTable, streamer_totals |-> EmptyTable,
           user_global_stats |-> EmptyTable]
Committed == [user_meows |-> user_meows, streamer_totals |-> streamer_totals,
              user_global_stats |-> user_global_stats]

StoreInit ==
    /\ user_meows = EmptyTable
    /\ streamer_totals = EmptyTable
    /\ user_global_stats = EmptyTable
    /\ db_lock = None
    /\ work = NoWork
    /\ call = [p \in Callers |-> IdleCall]
    /\ applied = [p \in Callers |-> {}]
    /\ passed = [k \in Users \X Channels |-> 0]
    /\ ncalls = 0

(***************************************************************************)
(* MeowDatabase.add_meow: a caller enters with (user_id, channel, count).  *)
(***************************************************************************)
add_meow(p, u, c, n) ==
    /\ boot.pc = "ready"
    /\ call[p].pc = "idle"
    /\ ncalls < MaxCalls
    /\ call' = [call EXCEPT ![p] = [pc |-> "user_meows", user |-> u, channel |-> c, count |-> n]]
    /\ applied' = [applied EXCEPT ![p] = {}]
    /\ passed' = [passed EXCEPT ![<<u, c>>] = @ + n]
    /\ ncalls' = ncalls + 1
    /\ UNCHANGED <<user_meows, streamer_totals, user_global_stats, db_lock, work>>
    /\ UNCHANGED <<queueVars, botVars, watchVars, bootVars, ingestVars, countVars, rejoinVars, readVars>>

\* first statement of the first transaction: takes the write lock, upserts user_meows
add_meow_user_meows(p) ==
    /\ call[p].pc = "user_meows"
    /\ db_lock = None
    /\ db_lock' = p
    /\ work' = [Committed EXCEPT !.user_meows =
                    Upsert(@, <<call[p].user, call[p].channel>>, call[p].count)]
    /\ call' = [call EXCEPT ![p].pc = "streamer_totals"]
    /\ UNCHANGED <<user_meows, streamer_totals, user_global_stats, applied, passed, ncalls>>
    /\ UNCHANGED <<queueVars, botVars, watchVars, bootVars, ingestVars, countVars, rejoinVars, readVars>>

\* second statement: upserts streamer_totals
add_meow_streamer_totals_by_one(p) ==
    /\ call[p].pc = "streamer_totals"
    /\ db_lock = p
    /\ work' = [work EXCEPT !.streamer_totals = Upsert(@, call[p].channel, 1)]
    /\ call' = [call EXCEPT ![p].pc = "commit"]
    /\ UNCHANGED <<user_meows, streamer_totals, user_global_stats, db_lock, applied, passed, ncalls>>
    /\ UNCHANGED <<queueVars, botVars, watchVars, bootVars, ingestVars, countVars, rejoinVars, readVars>>

add_meow_streamer_totals(p) ==
    /\ call[p].pc = "streamer_totals"
    /\ db_lock = p
    /\ work' = [work EXCEPT !.streamer_totals = Upsert(@, call[p].channel, call[p].count)]
    /\ call' = [call EXCEPT ![p].pc = "commit"]
    /\ UNCHANGED <<user_meows, streamer_totals, user_global_stats, db_lock, applied, passed, ncalls>>
    /\ UNCHANGED <<queueVars, botVars, watchVars, bootVars, ingestVars, countVars, rejoinVars, readVars>>

\* conn.commit() of the first transaction
add_meow_commit(p) ==
    /\ call[p].pc = "commit"
    /\ db_lock = p
    /\ user_meows' = work.user_meows
    /\ streamer_totals' = work.streamer_totals
    /\ db_lock' = None
    /\ work' = NoWork
    /\ applied' = [applied EXCEPT ![p] = @ \cup {"user", "channel"}]
    /\ call' = [call EXCEPT ![p].pc = "global_stats"]
    /\ UNCHANGED <<user_global_stats, passed, ncalls>>
    /\ UNCHANGED <<queueVars, botVars, watchVars, bootVars, ingestVars, countVars, rejoinVars, readVars>>

(***************************************************************************)
(* MeowDatabase.update_user_global_stats: a second connection and a second *)
(* transaction, entered after the first one has committed.                 *)
(***************************************************************************)
update_user_global_stats(p) ==
    /\ call[p].pc = "global_stats"
    /\ db_lock = None
    /\ db_lock' = p
    /\ work' = [Committed EXCEPT !.user_global_stats = UpsertGlobal(@, call[p].user, call[p].count)]
    /\ call' = [call EXCEPT ![p].pc = "channels_count"]
    /\ UNCHANGED <<user_meows, streamer_totals, user_global_stats, applied, passed, ncalls>>
    /\ UNCHANGED <<queueVars, botVars, watchVars, bootVars, ingestVars, countVars, rejoinVars, readVars>>

\* the UPDATE that recomputes channels_count left out: the row keeps the 1
\* of the INSERT or the value it had
update_channels_count_kept(p) ==
    /\ call[p].pc = "channels_count"
    /\ db_lock = p
    /\ call' = [call EXCEPT ![p].pc = "global_commit"]
    /\ UNCHANGED <<user_meows, streamer_totals, user_global_stats, db_lock, work, applied, passed, ncalls>>
    /\ UNCHANGED <<queueVars, botVars, watchVars, bootVars, ingestVars, countVars, rejoinVars, readVars>>

update_channels_count(p) ==
    /\ call[p].pc = "channels_count"
    /\ db_lock = p
    /\ work' = [work EXCEPT !.user_global_stats[call[p].user].channels_count =
                    ChannelsCount(work.user_meows, call[p].user)]
    /\ call' = [call EXCEPT ![p].pc = "global_commit"]
    /\ UNCHANGED <<user_meows, streamer_totals, user_global_stats, db_lock, applied, passed, ncalls>>
    /\ UNCHANGED <<queueVars, botVars, watchVars, bootVars, ingestVars, countVars, rejoinVars, readVars>>

update_global_commit(p) ==
    /\ call[p].pc = "global_commit"
    /\ db_lock = p
    /\ user_global_stats' = work.user_global_stats
    /\ db_lock' = None
    /\ work' = NoWork
    /\ applied' = [applied EXCEPT ![p] = @ \cup {"global"}]
    /\ call' = [call EXCEPT ![p].pc = "returned"]
    /\ UNCHANGED <<user_meows, streamer_totals, passed, ncalls>>
    /\ UNCHANGED <<queueVars, botVars, watchVars, bootVars, ingestVars, countVars, rejoinVars, readVars>>

\* add_meow returns (user_total, stream_total, streamer_total) to its caller
add_meow_return(p) ==
    /\ call[p].pc \in {"returned", "failed"}
    /\ call' = [call EXCEPT ![p] = IdleCall]
    /\ applied' = [applied EXCEPT ![p] = {}]
    /\ UNCHANGED <<user_meows, streamer_totals, user_global_stats, db_lock, work, passed, ncalls>>
    /\ UNCHANGED <<queueVars, botVars, watchVars, bootVars, ingestVars, countVars, rejoinVars, readVars>>

(***************************************************************************)
(* Storage unavailable (sqlite3.Error: disk I/O error, database is locked  *)
(* after the busy timeout): the statement raises, the connection's context *)
(* manager rolls the open transaction back, add_meow propagates the error. *)
(***************************************************************************)
storage_error(p) ==
    /\ call[p].pc \in {"user_meows", "streamer_totals", "commit",
                       "global_stats", "channels_count", "global_commit"}
    /\ db_lock' = IF db_lock = p THEN None ELSE db_lock
    /\ work' = IF db_lock = p THEN NoWork ELSE work
    /\ call' = [call EXCEPT ![p].pc = "failed"]
    /\ UNCHANGED <<user_meows, streamer_totals, user_global_stats, applied, passed, ncalls>>
    /\ UNCHANGED <<queueVars, botVars, watchVars, bootVars, ingestVars, countVars, rejoinVars, readVars>>

StoreStep ==
    \/ \E p \in Callers, u \in Users, c \in Channels, n \in Amounts : add_meow(p, u, c, n)
    \/ \E p \in Callers : add_meow_user_meows(p)
    \/ \E p \in Callers : add_meow_streamer_totals(p)
    \/ \E p \in Callers : add_meow_commit(p)
    \/ \E p \in Callers : update_user_global_stats(p)
    \/ \E p \in Callers : update_channels_count(p)
    \/ \E p \in Callers : update_global_commit(p)
    \/ \E p \in Callers : add_meow_return(p)

StoreFailStep == \E p \in Callers : storage_error(p)


(***************************************************************************)
(* The coordinator (src/main.py).  Time is counted in ticks; the clock     *)
(* jumps between sampled instants around the landmarks of the program.     *)
(***************************************************************************)
RetentionTicks == Retention * TicksPerSec
ProcessedTicks == ProcessedRetention * TicksPerSec
PollTicks == PollInterval * TicksPerSec

\* instants at which the coordinator's requests are sampled
Instants == {l + d : l \in {0, RetentionTicks}, d \in 0..MaxFine}

EnqHandlers == {"e1"}
DrainHandlers == {"d1"}
ListIds == 0..(Cardinality(EnqHandlers) + Cardinality(DrainHandlers))

\* str(int(time.time())): whole seconds, as a string float() can parse
StrInt(t) == [parses |-> TRUE, value |-> t \div TicksPerSec]
\* data.get('timestamp', 'manual'): a string float() cannot parse
Manual == [parses |-> FALSE, value |-> 0]
\* a JSON number given in the request body
BodyNumber(n) == [parses |-> TRUE, value |-> n]
BodyTimestamps == {Manual, BodyNumber(FutureStamp)}

\* float(channel_info.get('timestamp', 0)), in ticks
Float(ts) == ts.value * TicksPerSec
\* current_time - float(timestamp) < 300
Young(e, t) == t - Float(e.timestamp) < RetentionTicks

SeqToSet(q) == {q[i] : i \in 1..Len(q)}

RECURSIVE Filter(_, _)
\* [c for c in pending_channels if current_time - float(c.get('timestamp', 0)) < 300]
Filter(q, t) ==
    IF q = <<>> THEN <<>>
    ELSE IF Young(Head(q), t) THEN <<Head(q)>> \o Filter(Tail(q), t)
         ELSE Filter(Tail(q), t)

RECURSIVE FilterProcessed(_, _)
\* [c for c in processed_channels if current_time - c['processed_time'] < 3600]
FilterProcessed(q, t) ==
    IF q = <<>> THEN <<>>
    ELSE IF t - Head(q).processed_time < ProcessedTicks
         THEN <<Head(q)>> \o FilterProcessed(Tail(q), t)
         ELSE FilterProcessed(Tail(q), t)

NoEntry == [channel |-> None, timestamp |-> Manual, id |-> 0, at |-> 0]
IdleEnq == [pc |-> "idle", via |-> None, entry |-> NoEntry, ref |-> 0, status |-> 0]
IdleDrain == [pc |-> "idle", current_time |-> 0, iter |-> 0, idx |-> 0, seen |-> 0,
              to_send |-> <<>>, new_list |-> <<>>, status |-> 0]

\* list objects some thread can still reach
Refs(pend, e, d) ==
    {pend} \cup {e[h].ref : h \in {x \in EnqHandlers : e[x].pc = "append"}}
           \cup {d[h].iter : h \in {x \in DrainHandlers : d[x].pc = "scan"}}
\* unreachable list objects are collected
Collect(ls, refs) == [i \in ListIds |-> IF i \in refs THEN ls[i] ELSE <<>>]

QueueInit ==
    /\ now = 0
    /\ lists = [i \in ListIds |-> <<>>]
    /\ pending_channels = 0
    /\ processed_channels = <<>>
    /\ enq = [h \in EnqHandlers |-> IdleEnq]
    /\ drn = [h \in DrainHandlers |-> IdleDrain]
    /\ enqueued = {}
    /\ returned = {}
    /\ nenq = 0

\* the clock of the coordinator advances
Tick(I) ==
    /\ \E t \in I : t > now /\ now' = t
    /\ UNCHANGED <<lists, pending_channels, processed_channels, enq, drn,
                   enqueued, returned, nenq>>
    /\ UNCHANGED <<storeVars, botVars, watchVars, bootVars, ingestVars, countVars, rejoinVars, readVars>>

(***************************************************************************)
(* POST /api/authorize-bot.  The token exchange and the user lookup are    *)
(* external calls that touch no state of the coordinator; their outcomes   *)
(* are inputs.  The webhook notification after the append is caught and    *)
(* changes nothing.                                                        *)
(***************************************************************************)
AuthOutcomes == {"ok", "no_code", "token_failed", "user_failed"}

\* a request without code is answered 400 after its entry was appended
authorize_bot_append_first(h, outcome, login) ==
    /\ enq[h].pc = "idle"
    /\ outcome = "no_code"
    /\ enq' = [enq EXCEPT ![h] = [IdleEnq EXCEPT !.status = 400]]
    /\ lists' = [lists EXCEPT ![pending_channels] =
                     Append(@, [NoEntry EXCEPT !.channel = login])]
    /\ UNCHANGED <<now, pending_channels, processed_channels, drn, enqueued, returned, nenq>>
    /\ UNCHANGED <<storeVars, botVars, watchVars, bootVars, ingestVars, countVars, rejoinVars, readVars>>

authorize_bot(h, outcome, login) ==
    /\ enq[h].pc = "idle"
    /\ IF outcome = "no_code"
       THEN enq' = [enq EXCEPT ![h] = [IdleEnq EXCEPT !.status = 400]] /\ nenq' = nenq
       ELSE IF outcome \in {"token_failed", "user_failed"}
       THEN enq' = [enq EXCEPT ![h] = [IdleEnq EXCEPT !.status = 500]] /\ nenq' = nenq
       ELSE /\ nenq < MaxEnqueues
            /\ nenq' = nenq + 1
            /\ enq' = [enq EXCEPT ![h] =
                          [pc |-> "load", via |-> "authorize",
                           entry |-> [NoEntry EXCEPT !.channel = login],
                           ref |-> 0, status |-> 0]]
    /\ UNCHANGED <<now, lists, pending_channels, processed_channels, drn, enqueued, returned>>
    /\ UNCHANGED <<storeVars, botVars, watchVars, bootVars, ingestVars, countVars, rejoinVars, readVars>>

(***************************************************************************)
(* POST /api/add-channel with a JSON body.                                 *)
(***************************************************************************)
add_channel_manually(h, hasChannel, channel, ts) ==
    /\ enq[h].pc = "idle"
    /\ IF ~hasChannel
       THEN enq' = [enq EXCEPT ![h] = [IdleEnq EXCEPT !.status = 400]] /\ nenq' = nenq
       ELSE /\ nenq < MaxEnqueues
            /\ nenq' = nenq + 1
            /\ enq' = [enq EXCEPT ![h] =
                          [pc |-> "load", via |-> "add",
                           entry |-> [NoEntry EXCEPT !.channel = channel, !.timestamp = ts],
                           ref |-> 0, status |-> 0]]
    /\ UNCHANGED <<now, lists, pending_channels, processed_channels, drn, enqueued, returned>>
    /\ UNCHANGED <<storeVars, botVars, watchVars, bootVars, ingestVars, countVars, rejoinVars, readVars>>

\* pending_channels.append(...): the global is read, then the dict is built
pending_channels_load(h) ==
    /\ enq[h].pc = "load"
    /\ enq' = [enq EXCEPT ![h].pc = "append",
                          ![h].ref = pending_channels,
                          ![h].entry.timestamp =
                              IF enq[h].via = "authorize" THEN StrInt(now) ELSE @]
    /\ UNCHANGED <<now, lists, pending_channels, processed_channels, drn,
                   enqueued, returned, nenq>>
    /\ UNCHANGED <<storeVars, botVars, watchVars, bootVars, ingestVars, countVars, rejoinVars, readVars>>

\* ... and the append lands on the list object that was read
pending_channels_append(h) ==
    /\ enq[h].pc = "append"
    /\ LET e == [enq[h].entry EXCEPT !.id = Cardinality(enqueued) + 1, !.at = now]
           appended == [lists EXCEPT ![enq[h].ref] = Append(@, e)]
       IN /\ enq' = [enq EXCEPT ![h] = [IdleEnq EXCEPT !.status = 200]]
          /\ lists' = Collect(appended, Refs(pending_channels, enq', drn))
          /\ enqueued' = enqueued \cup {e}
    /\ UNCHANGED <<now, pending_channels, processed_channels, drn, returned, nenq>>
    /\ UNCHANGED <<storeVars, botVars, watchVars, bootVars, ingestVars, countVars, rejoinVars, readVars>>

(***************************************************************************)
(* GET /api/pending-channels.                                              *)
(***************************************************************************)
get_pending_channels(h) ==
    /\ drn[h].pc = "idle"
    /\ drn' = [drn EXCEPT ![h] = [IdleDrain EXCEPT !.pc = "scan", !.current_time = now,
                                      !.iter = pending_channels, !.idx = 1,
                                      !.seen = Cardinality(enqueued)]]
    /\ UNCHANGED <<now, lists, pending_channels, processed_channels, enq,
                   enqueued, returned, nenq>>
    /\ UNCHANGED <<storeVars, botVars, watchVars, bootVars, ingestVars, countVars, rejoinVars, readVars>>

\* one iteration of 'for channel_info in pending_channels'; float() of a
\* timestamp it cannot parse raises and the request ends with a 500
drain_scan(h) ==
    /\ drn[h].pc = "scan"
    /\ drn[h].idx <= Len(lists[drn[h].iter])
    /\ LET e == lists[drn[h].iter][drn[h].idx] IN
       IF ~e.timestamp.parses
       THEN /\ drn' = [drn EXCEPT ![h].pc = "done", ![h].status = 500, ![h].to_send = <<>>]
            /\ lists' = Collect(lists, Refs(pending_channels, enq, drn'))
            /\ UNCHANGED processed_channels
       ELSE IF Young(e, drn[h].current_time)
       THEN /\ drn' = [drn EXCEPT ![h].idx = @ + 1, ![h].to_send = Append(@, e)]
            /\ processed_channels' =
                 IF e.channel \in {c.channel : c \in SeqToSet(processed_channels)}
                 THEN processed_channels
                 ELSE Append(processed_channels,
                             [channel |-> e.channel, processed_time |-> drn[h].current_time])
            /\ UNCHANGED lists
       ELSE /\ drn' = [drn EXCEPT ![h].idx = @ + 1]
            /\ UNCHANGED <<lists, processed_channels>>
    /\ UNCHANGED <<now, pending_channels, enq, enqueued, returned, nenq>>
    /\ UNCHANGED <<storeVars, botVars, watchVars, bootVars, ingestVars, countVars, rejoinVars, readVars>>

\* the loop is exhausted; processed_channels is rebuilt without old records
drain_clean_processed(h) ==
    /\ drn[h].pc = "scan"
    /\ drn[h].idx > Len(lists[drn[h].iter])
    /\ processed_channels' = FilterProcessed(processed_channels, drn[h].current_time)
    /\ drn' = [drn EXCEPT ![h].pc = "filter"]
    /\ lists' = Collect(lists, Refs(pending_channels, enq, drn'))
    /\ UNCHANGED <<now, pending_channels, enq, enqueued, returned, nenq>>
    /\ UNCHANGED <<storeVars, botVars, watchVars, bootVars, ingestVars, countVars, rejoinVars, readVars>>

\* the comprehension over pending_channels builds the list to keep
drain_filter(h) ==
    /\ drn[h].pc = "filter"
    /\ IF \E e \in SeqToSet(lists[pending_channels]) : ~e.timestamp.parses
       THEN drn' = [drn EXCEPT ![h].pc = "done", ![h].status = 500, ![h].to_send = <<>>]
       ELSE drn' = [drn EXCEPT ![h].pc = "store",
                               ![h].new_list = Filter(lists[pending_channels], drn[h].current_time)]
    /\ UNCHANGED <<now, lists, pending_channels, processed_channels, enq,
                   enqueued, returned, nenq>>
    /\ UNCHANGED <<storeVars, botVars, watchVars, bootVars, ingestVars, countVars, rejoinVars, readVars>>

\* pending_channels = <the new list>; return jsonify({'channels': channels_to_send})
drain_store(h) ==
    /\ drn[h].pc = "store"
    /\ LET id == CHOOSE i \in ListIds :
                    /\ i \notin Refs(pending_channels, enq, drn)
                    /\ \A j \in ListIds : j < i => j \in Refs(pending_channels, enq, drn)
       IN /\ pending_channels' = id
          /\ drn' = [drn EXCEPT ![h].pc = "done", ![h].status = 200, ![h].new_list = <<>>]
          /\ lists' = Collect([lists EXCEPT ![id] = drn[h].new_list],
                              Refs(id, enq, drn'))
    /\ returned' = returned \cup {e.id : e \in SeqToSet(drn[h].to_send)}
    /\ UNCHANGED <<now, processed_channels, enq, enqueued, nenq>>
    /\ UNCHANGED <<storeVars, botVars, watchVars, bootVars, ingestVars, countVars, rejoinVars, readVars>>

\* the response has been sent; the handler thread is free again
drain_return(h) ==
    /\ drn[h].pc = "done"
    /\ drn' = [drn EXCEPT ![h] = IdleDrain]
    /\ UNCHANGED <<now, lists, pending_channels, processed_channels, enq,
                   enqueued, returned, nenq>>
    /\ UNCHANGED <<storeVars, botVars, watchVars, bootVars, ingestVars, countVars, rejoinVars, readVars>>

\* the steps of the enqueue handlers
EnqueueStep ==
    \/ \E h \in EnqHandlers : pending_channels_load(h)
    \/ \E h \in EnqHandlers : pending_channels_append(h)

\* the steps inside a pending-channels handler
DrainStep ==
    \/ \E h \in DrainHandlers : drain_scan(h)
    \/ \E h \in DrainHandlers : drain_clean_processed(h)
    \/ \E h \in DrainHandlers : drain_filter(h)
    \/ \E h \in DrainHandlers : drain_store(h)

QueueStep ==
    \/ Tick(Instants)
    \/ \E h \in EnqHandlers, outcome \in AuthOutcomes, login \in Channels :
          authorize_bot(h, outcome, login)
    \/ \E h \in EnqHandlers, hasChannel \in BOOLEAN, channel \in Channels,
          ts \in BodyTimestamps : add_channel_manually(h, hasChannel, channel, ts)
    \/ EnqueueStep
    \/ \E h \in DrainHandlers : get_pending_channels(h)
    \/ DrainStep
    \/ \E h \in DrainHandlers : drain_return(h)

(***************************************************************************)
(* The consumer's poll loop (MeowBot.start_railway_polling.poll_railway)   *)
(* and the joins it schedules on the event loop.                           *)
(***************************************************************************)
InitialChannelSets == {{}, {"bar"}}

\* the channel names a response can carry, and the responses of the model
RawChannels == {"foo", "Foo", "bar", ""}
RECURSIVE SeqsUpTo(_, _)
SeqsUpTo(S, n) ==
    IF n = 0 THEN {<<>>}
    ELSE SeqsUpTo(S, n - 1) \cup {Append(q, x) : q \in {y \in SeqsUpTo(S, n - 1) : Len(y) = n - 1}, x \in S}
Responses == SeqsUpTo(RawChannels, MaxResponse)
Statuses == {200, 500}

\* instants at which the consumer's poll cycles are sampled
PollInstants == {k * PollTicks : k \in 0..MaxPolls}

\* str.lower() on the channel names of the model
Lower(c) ==
    CASE c = "Foo" -> "foo"
      [] c = "U2" -> "u2"
      [] c = "MeowCounterBot" -> "meowcounterbot"
      [] OTHER -> c

\* INSERT OR REPLACE INTO channel_settings (channel, join_approved, global_access) VALUES (?, 1, 1)
ApprovedRow == [join_approved |-> TRUE, global_access |-> TRUE,
                bot_enabled |-> TRUE, setup_date |-> None]
InsertOrReplace(t, k, row) ==
    IF k \in DOMAIN t THEN [t EXCEPT ![k] = row] ELSE t @@ (k :> row)

IdleBot == [pc |-> "test", channels |-> <<>>, idx |-> 0, wake |-> 0]

BotInit ==
    /\ bot = IdleBot
    /\ poll_processed = {}
    /\ connected_channels \in InitialChannelSets
    /\ joins_pending = [c \in Channels |-> 0]
    /\ channel_settings = [k \in {} |-> ApprovedRow]
    /\ join_calls = [c \in Channels |-> 0]
    /\ approve_writes = [c \in Channels |-> 0]
    /\ redelivered = {}
    /\ failed_before = {}
    /\ attempted = {}

\* requests.get(f'{railway_url}/api/pending-channels', timeout=10): the
\* startup test request ("test") and the request of the loop ("request")
poll_request ==
    /\ bot.pc \in {"test", "request"}
    /\ bot' = [bot EXCEPT !.pc = IF bot.pc = "test" THEN "test_wait" ELSE "wait"]
    /\ UNCHANGED <<poll_processed, connected_channels, joins_pending, channel_settings,
                   join_calls, approve_writes, redelivered, failed_before, attempted>>
    /\ UNCHANGED <<storeVars, queueVars, watchVars, bootVars, ingestVars, countVars, rejoinVars, readVars>>

\* the outcome of the startup test (a response or an exception) is only logged
poll_test_response ==
    /\ bot.pc = "test_wait"
    /\ bot' = [bot EXCEPT !.pc = "request"]
    /\ UNCHANGED <<poll_processed, connected_channels, joins_pending, channel_settings,
                   join_calls, approve_writes, redelivered, failed_before, attempted>>
    /\ UNCHANGED <<storeVars, queueVars, watchVars, bootVars, ingestVars, countVars, rejoinVars, readVars>>

\* the coordinator's response arrives.  response.status_code == 200:
\* channels = data.get('channels', []); any other status is logged and the
\* loop sleeps
poll_response(status, channels) ==
    /\ bot.pc = "wait"
    /\ IF status = 200
       THEN bot' = [bot EXCEPT !.pc = "process", !.channels = channels, !.idx = 1]
       ELSE bot' = [bot EXCEPT !.pc = "sleep", !.channels = <<>>, !.wake = now + PollTicks]
    /\ failed_before' = IF status = 200
                        THEN {c \in Channels : /\ join_calls[c] > 0
                                               /\ joins_pending[c] = 0
                                               /\ c \notin connected_channels}
                        ELSE {}
    /\ attempted' = {}
    /\ UNCHANGED <<poll_processed, connected_channels, joins_pending, channel_settings,
                   join_calls, approve_writes, redelivered>>
    /\ UNCHANGED <<storeVars, queueVars, watchVars, bootVars, ingestVars, countVars, rejoinVars, readVars>>

\* requests.RequestException (timeout, connection error): the loop sleeps
poll_network_error ==
    /\ bot.pc = "wait"
    /\ bot' = [bot EXCEPT !.pc = "sleep", !.channels = <<>>, !.wake = now + PollTicks]
    /\ failed_before' = {}
    /\ attempted' = {}
    /\ UNCHANGED <<poll_processed, connected_channels, joins_pending, channel_settings,
                   join_calls, approve_writes, redelivered>>
    /\ UNCHANGED <<storeVars, queueVars, watchVars, bootVars, ingestVars, countVars, rejoinVars, readVars>>

\* except Exception: anything else raised while the response is processed
\* (response.json() or data.get fails on a body that is not a JSON object,
\* channel_info.get(...).lower() fails on an entry that is not an object or
\* whose 'channel' is not a string): the rest of the response is skipped,
\* the error is logged and the loop sleeps
poll_exception_unhandled ==
    /\ \/ bot.pc = "wait"
       \/ bot.pc = "process" /\ bot.idx <= Len(bot.channels)
    /\ bot' = [bot EXCEPT !.pc = "crashed"]
    /\ failed_before' = IF bot.pc = "wait" THEN {} ELSE failed_before
    /\ attempted' = IF bot.pc = "wait" THEN {} ELSE attempted
    /\ UNCHANGED <<poll_processed, connected_channels, joins_pending, channel_settings,
                   join_calls, approve_writes, redelivered>>
    /\ UNCHANGED <<storeVars, queueVars, watchVars, bootVars, ingestVars, countVars, rejoinVars, readVars>>

poll_exception ==
    /\ \/ bot.pc = "wait"
       \/ bot.pc = "process" /\ bot.idx <= Len(bot.channels)
    /\ bot' = [bot EXCEPT !.pc = "sleep", !.channels = <<>>, !.idx = 0,
                          !.wake = now + PollTicks]
    /\ failed_before' = IF bot.pc = "wait" THEN {} ELSE failed_before
    /\ attempted' = IF bot.pc = "wait" THEN {} ELSE attempted
    /\ UNCHANGED <<poll_processed, connected_channels, joins_pending, channel_settings,
                   join_calls, approve_writes, redelivered>>
    /\ UNCHANGED <<storeVars, queueVars, watchVars, bootVars, ingestVars, countVars, rejoinVars, readVars>>

\* one iteration of 'for channel_info in channels'.  db_ok: the INSERT OR
\* REPLACE succeeds; otherwise sqlite3 raises and the error is only logged.
poll_channel_no_mark(db_ok) ==
    /\ bot.pc = "process"
    /\ bot.idx <= Len(bot.channels)
    /\ LET channel_name == Lower(bot.channels[bot.idx]) IN
       IF channel_name \in poll_processed
       THEN /\ redelivered' = redelivered \cup {channel_name}
            /\ UNCHANGED <<poll_processed, joins_pending, channel_settings,
                           join_calls, approve_writes, attempted>>
       ELSE IF channel_name \in connected_channels
       THEN /\ poll_processed' = poll_processed \cup {channel_name}
            /\ UNCHANGED <<joins_pending, channel_settings, join_calls,
                           approve_writes, redelivered, attempted>>
       ELSE IF channel_name # ""
       THEN /\ joins_pending' = [joins_pending EXCEPT ![channel_name] = @ + 1]
            /\ join_calls' = [join_calls EXCEPT ![channel_name] = @ + 1]
            /\ attempted' = attempted \cup {channel_name}
            /\ IF db_ok /\ db_lock = None
               THEN /\ channel_settings' = InsertOrReplace(channel_settings, channel_name, ApprovedRow)
                    /\ approve_writes' = [approve_writes EXCEPT ![channel_name] = @ + 1]
               ELSE UNCHANGED <<channel_settings, approve_writes>>
            /\ UNCHANGED <<poll_processed, redelivered>>
       ELSE UNCHANGED <<poll_processed, joins_pending, channel_settings, join_calls,
                        approve_writes, redelivered, attempted>>
    /\ bot' = [bot EXCEPT !.idx = @ + 1]
    /\ UNCHANGED <<connected_channels, failed_before>>
    /\ UNCHANGED <<storeVars, queueVars, watchVars, bootVars, ingestVars, countVars, rejoinVars, readVars>>

\* the loop without the test on connected_channels
poll_channel_joins_connected(db_ok) ==
    /\ bot.pc = "process"
    /\ bot.idx <= Len(bot.channels)
    /\ LET channel_name == Lower(bot.channels[bot.idx]) IN
       IF channel_name \in poll_processed
       THEN /\ redelivered' = redelivered \cup {channel_name}
            /\ UNCHANGED <<poll_processed, joins_pending, channel_settings,
                           join_calls, approve_writes, attempted>>
       ELSE IF channel_name # ""
       THEN /\ poll_processed' = poll_processed \cup {channel_name}
            /\ joins_pending' = [joins_pending EXCEPT ![channel_name] = @ + 1]
            /\ join_calls' = [join_calls EXCEPT ![channel_name] = @ + 1]
            /\ attempted' = attempted \cup {channel_name}
            /\ IF db_ok /\ db_lock = None
               THEN /\ channel_settings' = InsertOrReplace(channel_settings, channel_name, ApprovedRow)
                    /\ approve_writes' = [approve_writes EXCEPT ![channel_name] = @ + 1]
               ELSE UNCHANGED <<channel_settings, approve_writes>>
            /\ UNCHANGED redelivered
       ELSE UNCHANGED <<poll_processed, joins_pending, channel_settings, join_calls,
                        approve_writes, redelivered, attempted>>
    /\ bot' = [bot EXCEPT !.idx = @ + 1]
    /\ UNCHANGED <<connected_channels, failed_before>>
    /\ UNCHANGED <<storeVars, queueVars, watchVars, bootVars, ingestVars, countVars, rejoinVars, readVars>>

\* the loop without .lower() on the delivered name
poll_channel_as_given(db_ok) ==
    /\ bot.pc = "process"
    /\ bot.idx <= Len(bot.channels)
    /\ LET channel_name == bot.channels[bot.idx] IN
       IF channel_name \in poll_processed
       THEN /\ redelivered' = redelivered \cup {channel_name}
            /\ UNCHANGED <<poll_processed, joins_pending, channel_settings,
                           join_calls, approve_writes, attempted>>
       ELSE IF channel_name \in connected_channels
       THEN /\ poll_processed' = poll_processed \cup {channel_name}
            /\ UNCHANGED <<joins_pending, channel_settings, join_calls,
                           approve_writes, redelivered, attempted>>
       ELSE IF channel_name # ""
       THEN /\ poll_processed' = poll_processed \cup {channel_name}
            /\ joins_pending' = [joins_pending EXCEPT ![channel_name] = @ + 1]
            /\ join_calls' = [join_calls EXCEPT ![channel_name] = @ + 1]
            /\ attempted' = attempted \cup {channel_name}
            /\ IF db_ok /\ db_lock = None
               THEN /\ channel_settings' = InsertOrReplace(channel_settings, channel_name, ApprovedRow)
                    /\ approve_writes' = [approve_writes EXCEPT ![channel_name] = @ + 1]
               ELSE UNCHANGED <<channel_settings, approve_writes>>
            /\ UNCHANGED redelivered
       ELSE UNCHANGED <<poll_processed, joins_pending, channel_settings, join_calls,
                        approve_writes, redelivered, attempted>>
    /\ bot' = [bot EXCEPT !.idx = @ + 1]
    /\ UNCHANGED <<connected_channels, failed_before>>
    /\ UNCHANGED <<storeVars, queueVars, watchVars, bootVars, ingestVars, countVars, rejoinVars, readVars>>

poll_channel(db_ok) ==
    /\ bot.pc = "process"
    /\ bot.idx <= Len(bot.channels)
    /\ LET channel_name == Lower(bot.channels[bot.idx]) IN
       IF channel_name \in poll_processed
       THEN /\ redelivered' = redelivered \cup {channel_name}
            /\ UNCHANGED <<poll_processed, joins_pending, channel_settings,
                           join_calls, approve_writes, attempted>>
       ELSE IF channel_name \in connected_channels
       THEN /\ poll_processed' = poll_processed \cup {channel_name}
            /\ UNCHANGED <<joins_pending, channel_settings, join_calls,
                           approve_writes, redelivered, attempted>>
       ELSE IF channel_name # ""
       THEN /\ poll_processed' = poll_processed \cup {channel_name}
            /\ joins_pending' = [joins_pending EXCEPT ![channel_name] = @ + 1]
            /\ join_calls' = [join_calls EXCEPT ![channel_name] = @ + 1]
            /\ attempted' = attempted \cup {channel_name}
            /\ IF db_ok /\ db_lock = None
               THEN /\ channel_settings' = InsertOrReplace(channel_settings, channel_name, ApprovedRow)
                    /\ approve_writes' = [approve_writes EXCEPT ![channel_name] = @ + 1]
               ELSE UNCHANGED <<channel_settings, approve_writes>>
            /\ UNCHANGED redelivered
       ELSE UNCHANGED <<poll_processed, joins_pending, channel_settings, join_calls,
                        approve_writes, redelivered, attempted>>
    /\ bot' = [bot EXCEPT !.idx = @ + 1]
    /\ UNCHANGED <<connected_channels, failed_before>>
    /\ UNCHANGED <<storeVars, queueVars, watchVars, bootVars, ingestVars, countVars, rejoinVars, readVars>>

\* the loop over the response is exhausted: time.sleep(30)
poll_sleep ==
    /\ bot.pc = "process"
    /\ bot.idx > Len(bot.channels)
    /\ bot' = [bot EXCEPT !.pc = "sleep", !.wake = now + PollTicks]
    /\ UNCHANGED <<poll_processed, connected_channels, joins_pending, channel_settings,
                   join_calls, approve_writes, redelivered, failed_before, attempted>>
    /\ UNCHANGED <<storeVars, queueVars, watchVars, bootVars, ingestVars, countVars, rejoinVars, readVars>>

\* the sleep is over: next iteration of 'while True'
poll_wake ==
    /\ bot.pc = "sleep"
    /\ now >= bot.wake
    /\ bot' = [bot EXCEPT !.pc = "request", !.wake = 0, !.idx = 0]
    /\ UNCHANGED <<poll_processed, connected_channels, joins_pending, channel_settings,
                   join_calls, approve_writes, redelivered, failed_before, attempted>>
    /\ UNCHANGED <<storeVars, queueVars, watchVars, bootVars, ingestVars, countVars, rejoinVars, readVars>>

\* MeowBot.join_new_channel runs on the event loop: join_channels succeeds
\* and the channel is connected, or it raises and False is returned
join_new_channel(c, ok) ==
    /\ joins_pending[c] > 0
    /\ joins_pending' = [joins_pending EXCEPT ![c] = @ - 1]
    /\ connected_channels' = IF ok THEN connected_channels \cup {c} ELSE connected_channels
    /\ UNCHANGED <<bot, poll_processed, channel_settings, join_calls, approve_writes,
                   redelivered, failed_before, attempted>>
    /\ UNCHANGED <<storeVars, queueVars, watchVars, bootVars, ingestVars, countVars, rejoinVars, readVars>>

BotStep ==
    \/ poll_request
    \/ poll_test_response
    \/ \E status \in Statuses, channels \in Responses : poll_response(status, channels)
    \/ poll_network_error
    \/ poll_exception
    \/ \E db_ok \in BOOLEAN : poll_channel(db_ok)
    \/ poll_sleep
    \/ poll_wake
    \/ \E c \in Channels, ok \in BOOLEAN : join_new_channel(c, ok)

\* the steps of the poll thread alone, on a small set of responses
LoopResponses == {<<>>, <<"foo">>, <<"Foo", "bar">>}
PollPositions == {"test", "test_wait", "request", "wait", "process", "sleep"}
LastPoll == MaxPolls * PollTicks

PollThread ==
    \/ poll_request
    \/ poll_test_response
    \/ \E status \in Statuses, channels \in LoopResponses : poll_response(status, channels)
    \/ poll_network_error
    \/ poll_exception
    \/ \E db_ok \in BOOLEAN : poll_channel(db_ok)
    \/ poll_sleep
    \/ poll_wake


(***************************************************************************)
(* The join file ./channels_to_join.txt: written by the bot's own          *)
(* POST /api/authorize-bot, read and cleared by start_channel_watcher.     *)
(***************************************************************************)
IdleWatcher == [pc |-> "read", channels |-> <<>>, idx |-> 0]

WatchInit ==
    /\ join_file = <<>>
    /\ watcher = IdleWatcher
    /\ watch_joins = [c \in Channels |-> 0]
    /\ watch_writes = [c \in Channels |-> 0]
    /\ file_adds = [c \in Channels |-> 0]

\* add_channel_to_join_list(channel_name): channel_name is the login Twitch
\* returned; it is appended unless the file already holds it
add_channel_to_join_list(channel_name) ==
    /\ SumOver(file_adds, Channels) < MaxFileAdds
    /\ join_file' = IF channel_name \in SeqToSet(join_file)
                    THEN join_file
                    ELSE Append(join_file, channel_name)
    /\ file_adds' = [file_adds EXCEPT ![channel_name] = @ + 1]
    /\ UNCHANGED <<watcher, watch_joins, watch_writes>>
    /\ UNCHANGED <<storeVars, queueVars, botVars, bootVars, ingestVars, countVars, rejoinVars, readVars>>

\* channels = [line.strip() for line in f if line.strip()]
watcher_read ==
    /\ watcher.pc = "read"
    /\ watcher' = [pc |-> "process", channels |-> join_file, idx |-> 1]
    /\ UNCHANGED <<join_file, watch_joins, watch_writes, file_adds>>
    /\ UNCHANGED <<storeVars, queueVars, botVars, bootVars, ingestVars, countVars, rejoinVars, readVars>>

\* one iteration of 'for channel in channels': a channel that is not
\* connected is joined (the coroutine is only scheduled) and its approval
\* row is written; db_ok: the INSERT OR REPLACE succeeds
watcher_channel(db_ok) ==
    /\ watcher.pc = "process"
    /\ watcher.idx <= Len(watcher.channels)
    /\ LET channel == watcher.channels[watcher.idx] IN
       IF channel \notin connected_channels
       THEN /\ joins_pending' = [joins_pending EXCEPT ![channel] = @ + 1]
            /\ watch_joins' = [watch_joins EXCEPT ![channel] = @ + 1]
            /\ IF db_ok /\ db_lock = None
               THEN /\ channel_settings' = InsertOrReplace(channel_settings, channel, ApprovedRow)
                    /\ watch_writes' = [watch_writes EXCEPT ![channel] = @ + 1]
               ELSE UNCHANGED <<channel_settings, watch_writes>>
       ELSE UNCHANGED <<joins_pending, watch_joins, channel_settings, watch_writes>>
    /\ watcher' = [watcher EXCEPT !.idx = @ + 1]
    /\ UNCHANGED <<join_file, file_adds>>
    /\ UNCHANGED <<bot, poll_processed, connected_channels, join_calls, approve_writes,
                   redelivered, failed_before, attempted>>
    /\ UNCHANGED <<storeVars, queueVars, bootVars, ingestVars, countVars, rejoinVars, readVars>>

\* if channels: open(file_path, 'w').close(); then time.sleep(interval)
watcher_clear ==
    /\ watcher.pc = "process"
    /\ watcher.idx > Len(watcher.channels)
    /\ join_file' = IF watcher.channels # <<>> THEN <<>> ELSE join_file
    /\ watcher' = [watcher EXCEPT !.pc = "sleep"]
    /\ UNCHANGED <<watch_joins, watch_writes, file_adds>>
    /\ UNCHANGED <<storeVars, queueVars, botVars, bootVars, ingestVars, countVars, rejoinVars, readVars>>

\* the sleep is over: next iteration of 'while True'
watcher_wake ==
    /\ watcher.pc = "sleep"
    /\ watcher' = IdleWatcher
    /\ UNCHANGED <<join_file, watch_joins, watch_writes, file_adds>>
    /\ UNCHANGED <<storeVars, queueVars, botVars, bootVars, ingestVars, countVars, rejoinVars, readVars>>

WatchStep ==
    \/ \E channel_name \in Channels : add_channel_to_join_list(channel_name)
    \/ watcher_read
    \/ \E db_ok \in BOOLEAN : watcher_channel(db_ok)
    \/ watcher_clear
    \/ watcher_wake

(***************************************************************************)
(* MeowBot._count_overlapping_meows.  A text is a sequence of characters.  *)
(***************************************************************************)
Pattern == <<"m", "e", "o", "w">>

\* str.lower() on the characters of the model
LowerChar(ch) ==
    CASE ch = "M" -> "m"
      [] ch = "E" -> "e"
      [] ch = "O" -> "o"
      [] ch = "W" -> "w"
      [] OTHER -> ch
StrLower(t) == [i \in 1..Len(t) |-> LowerChar(t[i])]

\* str.find(sub, start): the lowest index >= start at which sub occurs
\* (indices from 0), or -1
RECURSIVE Find(_, _, _)
Find(s, sub, start) ==
    IF start + Len(sub) > Len(s) THEN -1
    ELSE IF SubSeq(s, start + 1, start + Len(sub)) = sub THEN start
    ELSE Find(s, sub, start + 1)

\* while True: pos = text_lower.find('meow', start); if pos == -1: break;
\* count += 1; start = pos + 1
RECURSIVE CountLoop(_, _, _)
CountLoop(text_lower, start, count) ==
    LET pos == Find(text_lower, Pattern, start) IN
    IF pos = -1 THEN count ELSE CountLoop(text_lower, pos + 1, count + 1)

count_overlapping_meows_unfolded(t) == CountLoop(t, 0, 0)
count_overlapping_meows(t) == CountLoop(StrLower(t), 0, 0)

\* the texts counted: up to MaxPieces pieces, each one character or one
\* spelling of the word
Letters == {"m", "e", "o", "w", "M", "E", "O", "W", "x"}
Pieces == {<<l>> : l \in Letters} \cup {Pattern, <<"M", "E", "O", "W">>}
RECURSIVE Concat(_)
Concat(ps) == IF ps = <<>> THEN <<>> ELSE Head(ps) \o Concat(Tail(ps))
Texts == {Concat(ps) : ps \in SeqsUpTo(Pieces, MaxPieces)}

CountInit ==
    /\ text = <<>>
    /\ counted = -1

\* the call _count_overlapping_meows(text)
count_text ==
    /\ counted = -1
    /\ counted' = count_overlapping_meows(text)
    /\ UNCHANGED text
    /\ UNCHANGED <<storeVars, queueVars, botVars, watchVars, bootVars, ingestVars, rejoinVars, readVars>>

(***************************************************************************)
(* MeowBot.event_message.  The tasks of the event loop run one at a time   *)
(* and yield only at an await: the send and handle_commands.               *)
(***************************************************************************)
CooldownTicks == Cooldown * TicksPerSec
\* the instants of the chat clock: the start, the end of a cooldown that
\* began at the start, and one tick after it
ChatInstants == {0, CooldownTicks, CooldownTicks + 1}
\* the slots of the event loop for running event_message tasks; a new task
\* takes the first free slot
Tasks == {1, 2}
FirstFree(h) == msgs[h].pc = "idle" /\ \A g \in Tasks : g < h => msgs[g].pc # "idle"
BotName == "meowcounterbot"

\* the messages dispatched: author name, channel name, content, echo flag
Message(a, c, t, e) == [author |-> a, channel |-> c, content |-> t, echo |-> e]
Messages ==
    {Message("u1", "foo", <<"m", "e", "o", "w">>, FALSE),
     Message("U2", "foo", <<"M", "e", "o", "w", "m", "e", "O", "W">>, FALSE),
     Message("u1", "bar", <<"m", "e", "o", "w">>, FALSE),
     Message("u1", "foo", <<"m", "e", "w">>, FALSE),
     Message("MeowCounterBot", "foo", <<"m", "e", "o", "w">>, FALSE),
     Message("u1", "foo", <<"m", "e", "o", "w">>, TRUE)}

\* add_meow as one call of the event loop's thread: "ok", or sqlite3 raises
\* in the first transaction ("error": nothing is committed) or in
\* update_user_global_stats ("error_global": the first transaction is committed)
DbOutcomes == {"ok", "error", "error_global"}

IdleTask == [pc |-> "idle", id |-> 0, channel |-> None, meow_count |-> 0,
             current_time |-> 0, limited |-> FALSE]

IngestInit ==
    /\ msgs = [h \in Tasks |-> IdleTask]
    /\ rate_limiter = EmptyTable
    /\ replies = {}
    /\ record_calls = <<>>
    /\ inbox = <<>>

\* channel_key not in self.rate_limiter or current_time - self.rate_limiter[channel_key] > 5
\* message.echo, or message.author.name.lower() == 'meowcounterbot'
OwnMessageEchoOnly(m) == m.echo

OwnMessage(m) == m.echo \/ Lower(m.author) = BotName

MayReply(rl, channel_key, current_time) ==
    channel_key \notin DOMAIN rl \/ current_time - rl[channel_key] > CooldownTicks

\* the calls of add_meow that event_message makes for a message with n matches
CallsOneByOne(id, user_id, channel, n, db) ==
    [i \in 1..n |-> [msg |-> id, user_id |-> user_id, channel |-> channel,
                     count |-> 1, outcome |-> db]]
Calls(id, user_id, channel, n, db) ==
    <<[msg |-> id, user_id |-> user_id, channel |-> channel, count |-> n, outcome |-> db]>>

\* event_message up to its first await.  An echo or a message of the bot
\* itself returns at once.  Otherwise the matches are counted; if there are
\* any, add_meow is called and then the rate limiter decides whether the
\* acknowledgement is sent (the task is suspended at the send) or skipped.
\* An exception of add_meow is logged by the outer handler.
event_message_limiter_first(h, m, db) ==
    /\ FirstFree(h)
    /\ Len(inbox) < MaxMsgs
    /\ inbox' = Append(inbox, m)
    /\ LET id == Len(inbox) + 1
           meow_count == count_overlapping_meows(m.content)
           user_id == Lower(m.author)
           channel == Lower(m.channel)
           may == MayReply(rate_limiter, channel, now)
           task == [pc |-> "commands", id |-> id, channel |-> channel,
                    meow_count |-> meow_count, current_time |-> now, limited |-> FALSE]
       IN IF m.echo \/ Lower(m.author) = BotName
          THEN UNCHANGED <<msgs, record_calls, user_meows, streamer_totals, user_global_stats>>
          ELSE IF meow_count = 0 \/ ~may
          THEN /\ msgs' = [msgs EXCEPT ![h] = [task EXCEPT !.limited = meow_count > 0]]
               /\ UNCHANGED <<record_calls, user_meows, streamer_totals, user_global_stats>>
          ELSE /\ record_calls' = record_calls \o Calls(id, user_id, channel, meow_count, db)
               /\ user_meows' = IF db = "error" THEN user_meows
                                ELSE Upsert(user_meows, <<user_id, channel>>, meow_count)
               /\ streamer_totals' = IF db = "error" THEN streamer_totals
                                     ELSE Upsert(streamer_totals, channel, meow_count)
               /\ user_global_stats' =
                     IF db # "ok" THEN user_global_stats
                     ELSE LET ug == UpsertGlobal(user_global_stats, user_id, meow_count)
                          IN [ug EXCEPT ![user_id].channels_count =
                                            ChannelsCount(user_meows', user_id)]
               /\ msgs' = [msgs EXCEPT ![h] =
                             IF db = "ok" THEN [task EXCEPT !.pc = "send"] ELSE task]
    /\ UNCHANGED <<rate_limiter, replies>>
    /\ UNCHANGED <<db_lock, work, call, applied, passed, ncalls>>
    /\ UNCHANGED <<queueVars, botVars, watchVars, bootVars, countVars, rejoinVars, readVars>>

event_message_one_by_one(h, m, db) ==
    /\ FirstFree(h)
    /\ Len(inbox) < MaxMsgs
    /\ inbox' = Append(inbox, m)
    /\ LET id == Len(inbox) + 1
           meow_count == count_overlapping_meows(m.content)
           user_id == Lower(m.author)
           channel == Lower(m.channel)
           may == MayReply(rate_limiter, channel, now)
           task == [pc |-> "commands", id |-> id, channel |-> channel,
                    meow_count |-> meow_count, current_time |-> now, limited |-> FALSE]
       IN IF m.echo \/ Lower(m.author) = BotName
          THEN UNCHANGED <<msgs, record_calls, user_meows, streamer_totals, user_global_stats>>
          ELSE IF meow_count = 0
          THEN /\ msgs' = [msgs EXCEPT ![h] = task]
               /\ UNCHANGED <<record_calls, user_meows, streamer_totals, user_global_stats>>
          ELSE /\ record_calls' = record_calls \o CallsOneByOne(id, user_id, channel, meow_count, db)
               /\ user_meows' = IF db = "error" THEN user_meows
                                ELSE Upsert(user_meows, <<user_id, channel>>, meow_count)
               /\ streamer_totals' = IF db = "error" THEN streamer_totals
                                     ELSE Upsert(streamer_totals, channel, meow_count)
               /\ user_global_stats' =
                     IF db # "ok" THEN user_global_stats
                     ELSE LET ug == UpsertGlobal(user_global_stats, user_id, meow_count)
                          IN [ug EXCEPT ![user_id].channels_count =
                                            ChannelsCount(user_meows', user_id)]
               /\ msgs' = [msgs EXCEPT ![h] =
                             IF db # "ok" THEN task
                             ELSE IF may THEN [task EXCEPT !.pc = "send"]
                             ELSE [task EXCEPT !.limited = TRUE]]
    /\ UNCHANGED <<rate_limiter, replies>>
    /\ UNCHANGED <<db_lock, work, call, applied, passed, ncalls>>
    /\ UNCHANGED <<queueVars, botVars, watchVars, bootVars, countVars, rejoinVars, readVars>>

event_message(h, m, db) ==
    /\ FirstFree(h)
    /\ Len(inbox) < MaxMsgs
    /\ inbox' = Append(inbox, m)
    /\ LET id == Len(inbox) + 1
           meow_count == count_overlapping_meows(m.content)
           user_id == Lower(m.author)
           channel == Lower(m.channel)
           may == MayReply(rate_limiter, channel, now)
           task == [pc |-> "commands", id |-> id, channel |-> channel,
                    meow_count |-> meow_count, current_time |-> now, limited |-> FALSE]
       IN IF OwnMessage(m)
          THEN UNCHANGED <<msgs, record_calls, user_meows, streamer_totals, user_global_stats>>
          ELSE IF meow_count = 0
          THEN /\ msgs' = [msgs EXCEPT ![h] = task]
               /\ UNCHANGED <<record_calls, user_meows, streamer_totals, user_global_stats>>
          ELSE /\ record_calls' = record_calls \o Calls(id, user_id, channel, meow_count, db)
               /\ user_meows' = IF db = "error" THEN user_meows
                                ELSE Upsert(user_meows, <<user_id, channel>>, meow_count)
               /\ streamer_totals' = IF db = "error" THEN streamer_totals
                                     ELSE Upsert(streamer_totals, channel, meow_count)
               /\ user_global_stats' =
                     IF db # "ok" THEN user_global_stats
                     ELSE LET ug == UpsertGlobal(user_global_stats, user_id, meow_count)
                          IN [ug EXCEPT ![user_id].channels_count =
                                            ChannelsCount(user_meows', user_id)]
               /\ msgs' = [msgs EXCEPT ![h] =
                             IF db # "ok" THEN task
                             ELSE IF may THEN [task EXCEPT !.pc = "send"]
                             ELSE [task EXCEPT !.limited = TRUE]]
    /\ UNCHANGED <<rate_limiter, replies>>
    /\ UNCHANGED <<db_lock, work, call, applied, passed, ncalls>>
    /\ UNCHANGED <<queueVars, botVars, watchVars, bootVars, countVars, rejoinVars, readVars>>

\* await message.channel.send(response) returns and
\* self.rate_limiter[channel_key] = current_time, the time read before the
\* send; or the send raises, which is logged
\* a failed send also stamps the rate limiter
channel_send_stamps(h, ok) ==
    /\ msgs[h].pc = "send"
    /\ msgs' = [msgs EXCEPT ![h].pc = "commands"]
    /\ replies' = IF ok THEN replies \cup {[channel |-> msgs[h].channel, at |-> now,
                                            msg |-> msgs[h].id]}
                  ELSE replies
    /\ rate_limiter' =
          IF msgs[h].channel \in DOMAIN rate_limiter
          THEN [rate_limiter EXCEPT ![msgs[h].channel] = msgs[h].current_time]
          ELSE rate_limiter @@ (msgs[h].channel :> msgs[h].current_time)
    /\ UNCHANGED <<record_calls, inbox>>
    /\ UNCHANGED <<storeVars, queueVars, botVars, watchVars, bootVars, countVars, rejoinVars, readVars>>

channel_send(h, ok) ==
    /\ msgs[h].pc = "send"
    /\ msgs' = [msgs EXCEPT ![h].pc = "commands"]
    /\ IF ok
       THEN /\ replies' = replies \cup {[channel |-> msgs[h].channel, at |-> now,
                                        msg |-> msgs[h].id]}
            /\ rate_limiter' =
                  IF msgs[h].channel \in DOMAIN rate_limiter
                  THEN [rate_limiter EXCEPT ![msgs[h].channel] = msgs[h].current_time]
                  ELSE rate_limiter @@ (msgs[h].channel :> msgs[h].current_time)
       ELSE UNCHANGED <<replies, rate_limiter>>
    /\ UNCHANGED <<record_calls, inbox>>
    /\ UNCHANGED <<storeVars, queueVars, botVars, watchVars, bootVars, countVars, rejoinVars, readVars>>

\* await self.handle_commands(message) returns: the task ends
\* the handler goes on only when no poll request is in flight
handle_commands_after_poll(h) ==
    /\ msgs[h].pc = "commands"
    /\ bot.pc \notin {"test_wait", "wait"}
    /\ msgs' = [msgs EXCEPT ![h] = IdleTask]
    /\ UNCHANGED <<rate_limiter, replies, record_calls, inbox>>
    /\ UNCHANGED <<storeVars, queueVars, botVars, watchVars, bootVars, countVars, rejoinVars, readVars>>

handle_commands(h) ==
    /\ msgs[h].pc = "commands"
    /\ msgs' = [msgs EXCEPT ![h] = IdleTask]
    /\ UNCHANGED <<rate_limiter, replies, record_calls, inbox>>
    /\ UNCHANGED <<storeVars, queueVars, botVars, watchVars, bootVars, countVars, rejoinVars, readVars>>

IngestStep ==
    \/ \E h \in Tasks, m \in Messages, db \in DbOutcomes : event_message(h, m, db)
    \/ \E h \in Tasks, ok \in BOOLEAN : channel_send(h, ok)
    \/ \E h \in Tasks : handle_commands(h)

(***************************************************************************)
(* MeowDatabase.init_database and the channel_settings table: the schema   *)
(* found on disk, the flag setters and load_approved_channels_from_db.     *)
(***************************************************************************)
AllTables == {"user_meows", "channel_settings", "streamer_totals", "user_global_stats"}
OldTables == {"user_meows", "channel_settings"}
TableSets == {{}, OldTables, AllTables}

CurrentColumns == {"channel", "global_access", "bot_enabled", "join_approved", "setup_date"}
LegacyColumns == {"channel", "global_leaderboard_opt_in", "bot_enabled", "join_approved",
                  "setup_date"}
OldestColumns == {"channel", "global_leaderboard_opt_in", "bot_enabled", "setup_date"}
Schemas == {CurrentColumns, LegacyColumns, OldestColumns}

\* a row as its INSERT leaves it: join_approved DEFAULT 0, global_access
\* DEFAULT 0, bot_enabled DEFAULT 1
SettingsRow(ja, ga) == [join_approved |-> ja, global_access |-> ga,
                        bot_enabled |-> TRUE, setup_date |-> None]

NotLoaded == [called |-> FALSE, channels |-> {}]
Ready == [pc |-> "ready", unapproved |-> {}]
Down == [pc |-> "down", unapproved |-> {}]

DatabaseInit ==
    /\ boot = Ready
    /\ tables = AllTables
    /\ columns = CurrentColumns
    /\ legacy_opt_in = {}
    /\ loaded = NotLoaded

\* SELECT DISTINCT channel FROM streamer_totals WHERE total_meows > 0
ActiveChannels(st) == {c \in DOMAIN st : st[c] > 0}

\* _auto_migrate_schema on channel_settings cs with columns cols: the two
\* ALTER TABLE, then INSERT OR IGNORE and UPDATE from streamer_totals, then
\* the copy of global_leaderboard_opt_in.  A missing streamer_totals makes
\* the INSERT raise: the exception is logged and the rest is skipped.
AutoMigrateInsertOnly(cs, cols, legacy, st, tbls) ==
    LET active == ActiveChannels(st)
        inserted == [c \in DOMAIN cs \cup active |->
                        IF c \in DOMAIN cs THEN cs[c] ELSE SettingsRow(TRUE, TRUE)]
        copied == [c \in DOMAIN inserted |->
                        IF "global_leaderboard_opt_in" \in cols /\ c \in legacy
                        THEN [inserted[c] EXCEPT !.global_access = TRUE]
                        ELSE inserted[c]]
    IN [columns |-> cols \cup {"join_approved", "global_access"},
        channel_settings |-> IF "streamer_totals" \in tbls THEN copied ELSE cs]

AutoMigrate(cs, cols, legacy, st, tbls) ==
    LET active == ActiveChannels(st)
        inserted == [c \in DOMAIN cs \cup active |->
                        IF c \in DOMAIN cs THEN cs[c] ELSE SettingsRow(TRUE, TRUE)]
        updated == [c \in DOMAIN inserted |->
                        IF c \in active
                        THEN [inserted[c] EXCEPT !.join_approved = TRUE, !.global_access = TRUE]
                        ELSE inserted[c]]
        copied == [c \in DOMAIN updated |->
                        IF "global_leaderboard_opt_in" \in cols /\ c \in legacy
                        THEN [updated[c] EXCEPT !.global_access = TRUE]
                        ELSE updated[c]]
    IN [columns |-> cols \cup {"join_approved", "global_access"},
        channel_settings |-> IF "streamer_totals" \in tbls THEN copied ELSE cs]

\* the channels with recorded activity that no row marks join_approved
Unapproved(cs, st) ==
    {c \in ActiveChannels(st) : c \notin DOMAIN cs \/ ~cs[c].join_approved}

\* MeowDatabase.__init__ -> init_database at process start, in one
\* transaction: CREATE TABLE IF NOT EXISTS user_meows and channel_settings,
\* _auto_migrate_schema, CREATE TABLE IF NOT EXISTS streamer_totals and
\* user_global_stats, commit
init_database_recreate ==
    /\ boot.pc = "down"
    /\ db_lock = None
    /\ LET cols == IF "channel_settings" \in tables THEN columns ELSE CurrentColumns
           m == AutoMigrate(channel_settings, cols, legacy_opt_in, streamer_totals, tables)
       IN /\ columns' = m.columns
          /\ channel_settings' = m.channel_settings
    /\ tables' = AllTables
    /\ boot' = [pc |-> "ready", unapproved |-> Unapproved(channel_settings, streamer_totals)]
    /\ loaded' = NotLoaded
    /\ user_meows' = EmptyTable
    /\ streamer_totals' = EmptyTable
    /\ user_global_stats' = EmptyTable
    /\ UNCHANGED legacy_opt_in
    /\ UNCHANGED <<bot, poll_processed, connected_channels, joins_pending, join_calls,
                   approve_writes, redelivered, failed_before, attempted>>
    /\ UNCHANGED <<db_lock, work, call, applied, passed, ncalls>>
    /\ UNCHANGED <<queueVars, watchVars, ingestVars, countVars, rejoinVars, readVars>>

init_database ==
    /\ boot.pc = "down"
    /\ db_lock = None
    /\ LET cols == IF "channel_settings" \in tables THEN columns ELSE CurrentColumns
           m == AutoMigrate(channel_settings, cols, legacy_opt_in, streamer_totals, tables)
       IN /\ columns' = m.columns
          /\ channel_settings' = m.channel_settings
    /\ tables' = AllTables
    /\ boot' = [pc |-> "ready", unapproved |-> Unapproved(channel_settings, streamer_totals)]
    /\ loaded' = NotLoaded
    /\ UNCHANGED legacy_opt_in
    /\ UNCHANGED <<bot, poll_processed, connected_channels, joins_pending, join_calls,
                   approve_writes, redelivered, failed_before, attempted>>
    /\ UNCHANGED <<storeVars, queueVars, watchVars, ingestVars, countVars, rejoinVars, readVars>>

\* join_approved_channels before it is called
IdleRejoin == [pc |-> "idle", channels_to_join |-> <<>>, current_channels |-> {}, idx |-> 0]
NoAttempts == [c \in Channels |-> 0]

RejoinInit ==
    /\ rejoin = IdleRejoin
    /\ rejoin_attempts = NoAttempts

\* get_global_leaderboard and has_global_access before they are called
NoBoard == [called |-> FALSE, limit |-> 0, rows |-> <<>>, raised |-> FALSE]
NoAccess == [called |-> FALSE, channel |-> None, result |-> FALSE]

ReadInit ==
    /\ board = NoBoard
    /\ access = NoAccess

\* the bot process ends; no add_meow call is in flight.  Its connections and
\* its tasks end with it
process_exit ==
    /\ boot.pc = "ready"
    /\ \A p \in Callers : call[p].pc = "idle"
    /\ boot' = Down
    /\ loaded' = NotLoaded
    /\ connected_channels' = {}
    /\ rejoin' = IdleRejoin
    /\ rejoin_attempts' = NoAttempts
    /\ UNCHANGED <<tables, columns, legacy_opt_in>>
    /\ UNCHANGED <<bot, poll_processed, joins_pending, channel_settings, join_calls,
                   approve_writes, redelivered, failed_before, attempted>>
    /\ UNCHANGED <<storeVars, queueVars, watchVars, ingestVars, countVars, readVars>>

\* INSERT INTO channel_settings (channel, join_approved) VALUES (?, 1)
\* ON CONFLICT(channel) DO UPDATE SET join_approved = 1
approve_channel_join(channel) ==
    /\ boot.pc = "ready"
    /\ db_lock = None
    /\ channel_settings' =
          IF channel \in DOMAIN channel_settings
          THEN [channel_settings EXCEPT ![channel].join_approved = TRUE]
          ELSE channel_settings @@ (channel :> SettingsRow(TRUE, FALSE))
    /\ UNCHANGED <<bot, poll_processed, connected_channels, joins_pending, join_calls,
                   approve_writes, redelivered, failed_before, attempted>>
    /\ UNCHANGED <<storeVars, queueVars, watchVars, bootVars, ingestVars, countVars, rejoinVars, readVars>>

\* INSERT OR REPLACE INTO channel_settings (channel, global_access) VALUES (?, 1):
\* an existing row is deleted and every other column gets its default
opt_into_global(channel) ==
    /\ boot.pc = "ready"
    /\ db_lock = None
    /\ channel_settings' = InsertOrReplace(channel_settings, channel, SettingsRow(FALSE, TRUE))
    /\ legacy_opt_in' = legacy_opt_in \ {channel}
    /\ UNCHANGED <<boot, tables, columns, loaded>>
    /\ UNCHANGED <<bot, poll_processed, connected_channels, joins_pending, join_calls,
                   approve_writes, redelivered, failed_before, attempted>>
    /\ UNCHANGED <<storeVars, queueVars, watchVars, ingestVars, countVars, rejoinVars, readVars>>

\* load_approved_channels_from_db: a query on a missing column or on a
\* missing channel_settings raises sqlite3.OperationalError, which is
\* tolerated; a missing streamer_totals raises into the outer handler,
\* which returns []
LoadApprovedFlagsOnly(cs, cols, legacy, st, tbls) ==
    LET approved_channels ==
            IF "channel_settings" \in tbls /\ "join_approved" \in cols
            THEN {c \in DOMAIN cs : cs[c].join_approved} ELSE {}
        global_channels ==
            IF "channel_settings" \in tbls /\ "global_access" \in cols
            THEN {c \in DOMAIN cs : cs[c].global_access}
            ELSE IF "channel_settings" \in tbls /\ "global_leaderboard_opt_in" \in cols
            THEN legacy ELSE {}
    IN IF "streamer_totals" \in tbls
       THEN approved_channels \cup global_channels
       ELSE {}

LoadApproved(cs, cols, legacy, st, tbls) ==
    LET approved_channels ==
            IF "channel_settings" \in tbls /\ "join_approved" \in cols
            THEN {c \in DOMAIN cs : cs[c].join_approved} ELSE {}
        global_channels ==
            IF "channel_settings" \in tbls /\ "global_access" \in cols
            THEN {c \in DOMAIN cs : cs[c].global_access}
            ELSE IF "channel_settings" \in tbls /\ "global_leaderboard_opt_in" \in cols
            THEN legacy ELSE {}
        active_channels == ActiveChannels(st)
    IN IF "streamer_totals" \in tbls
       THEN approved_channels \cup global_channels \cup active_channels
       ELSE {}

load_approved_channels_from_db ==
    /\ boot.pc = "ready"
    /\ ~loaded.called
    /\ loaded' = [called |-> TRUE,
                  channels |-> LoadApproved(channel_settings, columns, legacy_opt_in,
                                            streamer_totals, tables)]
    /\ UNCHANGED <<boot, tables, columns, legacy_opt_in>>
    /\ UNCHANGED <<storeVars, queueVars, botVars, watchVars, ingestVars, countVars, rejoinVars, readVars>>

DatabaseStep ==
    \/ init_database
    \/ process_exit
    \/ \E channel \in Channels : approve_channel_join(channel)
    \/ \E channel \in Channels : opt_into_global(channel)
    \/ load_approved_channels_from_db

\* a database found on disk: the tables it has, the schema of
\* channel_settings, its rows and the channel totals; user "u1" did the counting
RowsOf(cols) ==
    {SettingsRow(ja, ga) :
        ja \in IF "join_approved" \in cols THEN BOOLEAN ELSE {FALSE},
        ga \in IF "global_access" \in cols THEN BOOLEAN ELSE {FALSE}}
TablesOver(keys, vals) == UNION {[d -> vals] : d \in SUBSET keys}

UserMeowsOf(st) == [k \in {<<"u1", c>> : c \in DOMAIN st} |-> st[k[2]]]
GlobalStatsOf(st) ==
    IF DOMAIN st = {} THEN EmptyTable
    ELSE "u1" :> [total_meows |-> SumOver(st, DOMAIN st),
                  channels_count |-> Cardinality(DOMAIN st)]

InitBoot ==
    /\ tables \in TableSets
    /\ columns \in IF "channel_settings" \in tables THEN Schemas ELSE {CurrentColumns}
    /\ channel_settings \in IF "channel_settings" \in tables
                            THEN TablesOver(Channels, RowsOf(columns))
                            ELSE {[k \in {} |-> ApprovedRow]}
    /\ legacy_opt_in \in IF "global_leaderboard_opt_in" \in columns
                         THEN SUBSET DOMAIN channel_settings
                         ELSE {{}}
    /\ streamer_totals \in IF "streamer_totals" \in tables
                           THEN TablesOver(Channels, Amounts)
                           ELSE {EmptyTable}
    /\ user_meows = UserMeowsOf(streamer_totals)
    /\ user_global_stats = GlobalStatsOf(streamer_totals)
    /\ boot \in IF tables = AllTables /\ columns = CurrentColumns THEN {Down, Ready} ELSE {Down}
    /\ loaded = NotLoaded
    /\ db_lock = None
    /\ work = NoWork
    /\ call = [p \in Callers |-> IdleCall]
    /\ applied = [p \in Callers |-> {}]
    /\ passed = [k \in Users \X Channels |-> MeowCount(user_meows, k[1], k[2])]
    /\ ncalls = 0
    /\ bot = IdleBot
    /\ poll_processed = {}
    /\ connected_channels = {}
    /\ joins_pending = [c \in Channels |-> 0]
    /\ join_calls = [c \in Channels |-> 0]
    /\ approve_writes = [c \in Channels |-> 0]
    /\ redelivered = {}
    /\ failed_before = {}
    /\ attempted = {}
    /\ QueueInit
    /\ WatchInit
    /\ IngestInit
    /\ CountInit
    /\ RejoinInit
    /\ ReadInit

(***************************************************************************)
(* MeowBot.event_ready and join_approved_channels: the rejoin at start-up. *)
(***************************************************************************)
\* list(set(...)): the elements of S once each, in some order
Orders(S) ==
    {q \in SeqsUpTo(S, Cardinality(S)) :
        /\ Len(q) = Cardinality(S)
        /\ \A i, j \in 1..Len(q) : q[i] = q[j] => i = j}

\* event_ready: the bot is connected to its initial channels;
\* join_approved_channels loads the channels and reads connected_channels
event_ready ==
    /\ boot.pc = "ready"
    /\ rejoin.pc = "idle"
    /\ \E initial \in InitialChannelSets :
          LET channels == LoadApproved(channel_settings, columns, legacy_opt_in,
                                       streamer_totals, tables)
          IN /\ connected_channels' = initial
             /\ loaded' = [called |-> TRUE, channels |-> channels]
             /\ \E order \in Orders(channels) :
                   rejoin' = [pc |-> "loop", channels_to_join |-> order,
                              current_channels |-> initial, idx |-> 1]
    /\ UNCHANGED rejoin_attempts
    /\ UNCHANGED <<boot, tables, columns, legacy_opt_in>>
    /\ UNCHANGED <<bot, poll_processed, joins_pending, channel_settings, join_calls,
                   approve_writes, redelivered, failed_before, attempted>>
    /\ UNCHANGED <<storeVars, queueVars, watchVars, ingestVars, countVars, readVars>>

\* the loop stops at the first join that fails
join_approved_channels_abort(ok) ==
    /\ rejoin.pc = "loop"
    /\ rejoin.idx <= Len(rejoin.channels_to_join)
    /\ LET channel == rejoin.channels_to_join[rejoin.idx] IN
       IF channel \notin rejoin.current_channels
       THEN /\ rejoin_attempts' = [rejoin_attempts EXCEPT ![channel] = @ + 1]
            /\ connected_channels' = IF ok THEN connected_channels \cup {channel}
                                     ELSE connected_channels
            /\ rejoin' = IF ok THEN [rejoin EXCEPT !.idx = @ + 1]
                         ELSE [rejoin EXCEPT !.pc = "done"]
       ELSE /\ rejoin' = [rejoin EXCEPT !.idx = @ + 1]
            /\ UNCHANGED <<rejoin_attempts, connected_channels>>
    /\ UNCHANGED <<bot, poll_processed, joins_pending, channel_settings, join_calls,
                   approve_writes, redelivered, failed_before, attempted>>
    /\ UNCHANGED <<storeVars, queueVars, watchVars, bootVars, ingestVars, countVars, readVars>>

\* one iteration of 'for channel in channels_to_join': a channel that was
\* not connected is joined with await self.join_new_channel(channel), which
\* returns True or, after logging the exception, False; then
\* asyncio.sleep(1)
join_approved_channels(ok) ==
    /\ rejoin.pc = "loop"
    /\ rejoin.idx <= Len(rejoin.channels_to_join)
    /\ LET channel == rejoin.channels_to_join[rejoin.idx] IN
       IF channel \notin rejoin.current_channels
       THEN /\ rejoin_attempts' = [rejoin_attempts EXCEPT ![channel] = @ + 1]
            /\ connected_channels' = IF ok THEN connected_channels \cup {channel}
                                     ELSE connected_channels
       ELSE UNCHANGED <<rejoin_attempts, connected_channels>>
    /\ rejoin' = [rejoin EXCEPT !.idx = @ + 1]
    /\ UNCHANGED <<bot, poll_processed, joins_pending, channel_settings, join_calls,
                   approve_writes, redelivered, failed_before, attempted>>
    /\ UNCHANGED <<storeVars, queueVars, watchVars, bootVars, ingestVars, countVars, readVars>>

\* the loop is exhausted: join_approved_channels returns to event_ready
join_approved_channels_return ==
    /\ rejoin.pc = "loop"
    /\ rejoin.idx > Len(rejoin.channels_to_join)
    /\ rejoin' = [rejoin EXCEPT !.pc = "done"]
    /\ UNCHANGED rejoin_attempts
    /\ UNCHANGED <<storeVars, queueVars, botVars, watchVars, bootVars, ingestVars, countVars, readVars>>

RejoinStep ==
    \/ event_ready
    \/ \E ok \in BOOLEAN : join_approved_channels(ok)
    \/ join_approved_channels_return

(***************************************************************************)
(* MeowDatabase.get_global_leaderboard and has_global_access.              *)
(***************************************************************************)
\* default_channels = ['meowcounterbot', 'snorlaxbuffet']
default_channels == {"meowcounterbot", "snorlaxbuffet"}

\* the channels of the databases these two functions are applied to, the
\* arguments of has_global_access and the limits of the leaderboard
BoardChannels == {"foo", "bar", "snorlaxbuffet"}
AccessArguments == BoardChannels \cup {"meowcounterbot"}
Limits == 0..MaxLimit

\* the selection without the default channels
SelectedFlagOnly(st, cs, cols, legacy) ==
    {c \in DOMAIN st :
        IF "global_access" \in cols
        THEN c \in DOMAIN cs /\ cs[c].global_access
        ELSE c \in legacy}

\* WHERE (cs.global_access = 1) OR (st.channel IN (?, ?)) over streamer_totals
\* LEFT JOIN channel_settings; without the column global_access the query
\* raises sqlite3.OperationalError and the one on global_leaderboard_opt_in
\* is run
Selected(st, cs, cols, legacy) ==
    {c \in DOMAIN st :
        \/ IF "global_access" \in cols
           THEN c \in DOMAIN cs /\ cs[c].global_access
           ELSE c \in legacy
        \/ c \in default_channels}

\* ORDER BY st.total_meows DESC: the selected channels in an order of
\* descending totals; channels with equal totals come in any order
Ranked(S, st) ==
    {q \in Orders(S) : \A i, j \in 1..Len(q) : i < j => st[q[i]] >= st[q[j]]}

\* LIMIT ?: the first limit rows
Limit(q, limit) == SubSeq(q, 1, IF limit < Len(q) THEN limit ELSE Len(q))

\* cursor.fetchall(): the rows (channel, total_meows)
Rows(q, st) == [i \in 1..Len(q) |-> <<q[i], st[q[i]]>>]

\* the query on global_access raises sqlite3.OperationalError when the column
\* is missing and the query on global_leaderboard_opt_in is run in the
\* handler; that one has no handler of its own
LeaderboardRaisesNoFallback(cols) == "global_access" \notin cols

LeaderboardRaises(cols) ==
    "global_access" \notin cols /\ "global_leaderboard_opt_in" \notin cols

get_global_leaderboard(limit) ==
    /\ boot.pc = "ready"
    /\ IF LeaderboardRaises(columns)
       THEN board' = [called |-> TRUE, limit |-> limit, rows |-> <<>>, raised |-> TRUE]
       ELSE \E q \in Ranked(Selected(streamer_totals, channel_settings, columns,
                                     legacy_opt_in), streamer_totals) :
               board' = [called |-> TRUE, limit |-> limit,
                         rows |-> Rows(Limit(q, limit), streamer_totals),
                         raised |-> FALSE]
    /\ UNCHANGED access
    /\ UNCHANGED <<storeVars, queueVars, botVars, watchVars, bootVars, ingestVars, countVars, rejoinVars>>

\* has_global_access(channel): True for a default channel; otherwise the
\* global_access of the row of channel, then its global_leaderboard_opt_in;
\* a missing column raises sqlite3.OperationalError, which is passed over
HasGlobalAccessStoredOnly(channel, cs, cols, legacy) ==
    \/ "global_access" \in cols /\ channel \in DOMAIN cs /\ cs[channel].global_access
    \/ "global_leaderboard_opt_in" \in cols /\ channel \in legacy

HasGlobalAccess(channel, cs, cols, legacy) ==
    IF Lower(channel) \in default_channels THEN TRUE
    ELSE \/ "global_access" \in cols /\ channel \in DOMAIN cs /\ cs[channel].global_access
         \/ "global_leaderboard_opt_in" \in cols /\ channel \in legacy

has_global_access(channel) ==
    /\ boot.pc = "ready"
    /\ access' = [called |-> TRUE, channel |-> channel,
                  result |-> HasGlobalAccess(channel, channel_settings, columns, legacy_opt_in)]
    /\ UNCHANGED board
    /\ UNCHANGED <<storeVars, queueVars, botVars, watchVars, bootVars, ingestVars, countVars, rejoinVars>>

ReadStep ==
    \/ \E limit \in Limits : get_global_leaderboard(limit)
    \/ \E channel \in AccessArguments : has_global_access(channel)

\* a database after init_database: all tables, and channel_settings with
\* its current columns, with or without the legacy column beside them
MigratedSchemas == {cols \cup {"join_approved", "global_access"} : cols \in Schemas}
FlagRows == {SettingsRow(TRUE, ga) : ga \in BOOLEAN}

InitRead ==
    /\ tables = AllTables
    /\ columns \in MigratedSchemas
    /\ channel_settings \in TablesOver(BoardChannels, FlagRows)
    /\ legacy_opt_in \in IF "global_leaderboard_opt_in" \in columns
                         THEN SUBSET DOMAIN channel_settings
                         ELSE {{}}
    /\ streamer_totals \in TablesOver(BoardChannels, Amounts)
    /\ user_meows = UserMeowsOf(streamer_totals)
    /\ user_global_stats = GlobalStatsOf(streamer_totals)
    /\ boot = Ready
    /\ loaded = NotLoaded
    /\ db_lock = None
    /\ work = NoWork
    /\ call = [p \in Callers |-> IdleCall]
    /\ applied = [p \in Callers |-> {}]
    /\ passed = [k \in Users \X Channels |-> MeowCount(user_meows, k[1], k[2])]
    /\ ncalls = 0
    /\ bot = IdleBot
    /\ poll_processed = {}
    /\ connected_channels = {}
    /\ joins_pending = [c \in Channels |-> 0]
    /\ join_calls = [c \in Channels |-> 0]
    /\ approve_writes = [c \in Channels |-> 0]
    /\ redelivered = {}
    /\ failed_before = {}
    /\ attempted = {}
    /\ QueueInit
    /\ WatchInit
    /\ IngestInit
    /\ CountInit
    /\ RejoinInit
    /\ ReadInit

\* a database whose file was replaced by a copy with an older schema after
\* init_database ran: every read opens the file again
DriftChannels == {"foo", "snorlaxbuffet"}
InitDrift ==
    /\ tables = AllTables
    /\ columns \in Schemas
    /\ channel_settings \in TablesOver(DriftChannels, RowsOf(columns))
    /\ legacy_opt_in \in IF "global_leaderboard_opt_in" \in columns
                         THEN SUBSET DOMAIN channel_settings
                         ELSE {{}}
    /\ streamer_totals \in TablesOver(DriftChannels, Amounts)
    /\ user_meows = UserMeowsOf(streamer_totals)
    /\ user_global_stats = GlobalStatsOf(streamer_totals)
    /\ boot = Ready
    /\ loaded = NotLoaded
    /\ db_lock = None
    /\ work = NoWork
    /\ call = [p \in Callers |-> IdleCall]
    /\ applied = [p \in Callers |-> {}]
    /\ passed = [k \in Users \X Channels |-> MeowCount(user_meows, k[1], k[2])]
    /\ ncalls = 0
    /\ bot = IdleBot
    /\ poll_processed = {}
    /\ connected_channels = {}
    /\ joins_pending = [c \in Channels |-> 0]
    /\ join_calls = [c \in Channels |-> 0]
    /\ approve_writes = [c \in Channels |-> 0]
    /\ redelivered = {}
    /\ failed_before = {}
    /\ attempted = {}
    /\ QueueInit
    /\ WatchInit
    /\ IngestInit
    /\ CountInit
    /\ RejoinInit
    /\ ReadInit

(***************************************************************************)
(* Properties of the coordinator's queue.                                  *)
(***************************************************************************)
\* the entry was appended before the handler started and the handler has answered
AnsweredAfter(h, e) == drn[h].pc = "done" /\ e.id <= drn[h].seen
Pending == lists[pending_channels]

\* C6: an entry enqueued at time t is returned by every drain called at a
\* time in [t, t + 300 s), however often it has been returned before.
C6_AtLeastOnce ==
    \A h \in DrainHandlers : \A e \in enqueued :
        (AnsweredAfter(h, e) /\ drn[h].current_time - e.at < RetentionTicks)
            => (drn[h].status = 200 /\ e \in SeqToSet(drn[h].to_send))

\* C7: no drain called more than 300 s after an entry was enqueued returns
\* the entry, and that drain purges the entry from the pending list.
C7_Expiry ==
    \A h \in DrainHandlers : \A e \in enqueued :
        (AnsweredAfter(h, e) /\ drn[h].current_time - e.at > RetentionTicks)
            => (e \notin SeqToSet(drn[h].to_send) /\ e \notin SeqToSet(Pending))

\* the entry is inside the retention window, by the clock and by its timestamp
Unexpired(e) == now - e.at < RetentionTicks /\ (e.timestamp.parses => Young(e, now))

\* C8: the pending queue never holds two unexpired entries of one channel,
\* and no drain response carries two entries of one channel.
OnePerChannel(q) ==
    \A i, j \in 1..Len(q) : q[i].channel = q[j].channel => i = j

C8_DedupByChannel ==
    /\ \A i, j \in 1..Len(Pending) :
          (/\ Pending[i].channel = Pending[j].channel
           /\ Unexpired(Pending[i])
           /\ Unexpired(Pending[j])) => i = j
    /\ \A h \in DrainHandlers : OnePerChannel(drn[h].to_send)

\* C9: an enqueue that ran concurrently with a drain is not lost: once both
\* have completed, the unexpired entry is in the pending queue or was
\* returned by a drain.
Quiescent ==
    /\ \A h \in EnqHandlers : enq[h].pc = "idle"
    /\ \A h \in DrainHandlers : drn[h].pc \in {"idle", "done"}

C9_EnqueueNotLost ==
    Quiescent =>
        \A e \in enqueued :
            Unexpired(e) => (e \in SeqToSet(Pending) \/ e.id \in returned)

(***************************************************************************)
(* Properties of the consumer's poll loop.                                 *)
(***************************************************************************)
\* C5: in one process lifetime the poll loop issues at most one join and
\* writes at most one approval row per channel, whatever is delivered and
\* however often.
C5_JoinAtMostOnce ==
    \A c \in Channels : join_calls[c] <= 1 /\ approve_writes[c] <= 1

C5_Witness ==
    \E c \in Channels :
        /\ c \in redelivered
        /\ join_calls[c] = 1
        /\ approve_writes[c] = 1

\* C10: when a delivered channel's earlier join has failed and the channel
\* is not connected, processing a later delivery of it attempts the join again.
Delivered == {Lower(bot.channels[i]) : i \in 1..Len(bot.channels)}

C10_RetryFailedJoin ==
    bot.pc = "sleep" => \A c \in failed_before \cap Delivered : c \in attempted

\* the store and the coordinator on their own: the consumer stays in its initial state
Init ==
    /\ StoreInit /\ QueueInit /\ BotInit /\ connected_channels = {}
    /\ WatchInit /\ DatabaseInit /\ IngestInit /\ CountInit
    /\ RejoinInit /\ ReadInit

\* the consumer, started with any of the initial channel sets
InitPoll ==
    /\ StoreInit /\ QueueInit /\ BotInit
    /\ WatchInit /\ DatabaseInit /\ IngestInit /\ CountInit
    /\ RejoinInit /\ ReadInit

Next == StoreStep

Spec == Init /\ [][Next]_vars

NextFail == StoreStep \/ StoreFailStep

SpecFail == Init /\ [][NextFail]_vars

NextQueue == QueueStep

SpecQueue == Init /\ [][NextQueue]_vars

NextPoll == BotStep \/ Tick(PollInstants)

SpecPoll == InitPoll /\ [][NextPoll]_vars

\* the poll thread on its own.  The thread is scheduled, and its request
\* (timeout=10) ends in a response or an exception; the clock advances.
NextLoop ==
    \/ PollThread
    \/ \E c \in Channels, ok \in BOOLEAN : join_new_channel(c, ok)
    \/ Tick(PollInstants)

SpecLoop ==
    InitPoll /\ [][NextLoop]_vars /\ WF_vars(PollThread) /\ WF_vars(Tick(PollInstants))

\* the poll thread and the channel watcher of one bot process
NextWatch ==
    \/ PollThread
    \/ \E c \in Channels, ok \in BOOLEAN : join_new_channel(c, ok)
    \/ Tick(PollInstants)
    \/ WatchStep

SpecWatch == Init /\ [][NextWatch]_vars

\* process starts and stops on a database found on disk
NextBoot == DatabaseStep

SpecBoot == InitBoot /\ [][NextBoot]_vars

\* the event_message tasks of one bot process
NextIngest == IngestStep \/ Tick(ChatInstants)

SpecIngest == Init /\ [][NextIngest]_vars

\* _count_overlapping_meows on every text of Texts
InitCount ==
    /\ StoreInit /\ QueueInit /\ BotInit /\ connected_channels = {}
    /\ WatchInit /\ DatabaseInit /\ IngestInit
    /\ RejoinInit /\ ReadInit
    /\ text \in Texts
    /\ counted = -1

NextCount == count_text

SpecCount == InitCount /\ [][NextCount]_vars

\* the counter store over the life of the database file: add_meow calls,
\* the flag setter the bot calls (!optinglobal), process exit and
\* re-initialization at the next start
NextLife ==
    \/ StoreStep
    \/ init_database
    \/ process_exit
    \/ \E channel \in Channels : opt_into_global(channel)

SpecLife == Init /\ [][NextLife]_vars

\* a process start on a database found on disk, with the rejoin of
\* event_ready
NextRejoin ==
    \/ init_database
    \/ process_exit
    \/ \E channel \in Channels : opt_into_global(channel)
    \/ RejoinStep

SpecRejoin == InitBoot /\ [][NextRejoin]_vars

\* the two read functions on every database of InitRead
NextRead == ReadStep

SpecRead == InitRead /\ [][NextRead]_vars

\* the poll thread with a coordinator that answers without channels, answers
\* with an error, or does not answer, next to the tasks of event_message.
\* The event loop runs every task that can run; nothing is assumed about
\* the poll thread or the coordinator
IsolationMessages == {Message("u1", "foo", <<"m", "e", "o", "w">>, FALSE)}
IsolationInstants == {0, PollTicks}
IsolationThread ==
    \/ poll_request
    \/ poll_test_response
    \/ \E status \in Statuses : poll_response(status, <<>>)
    \/ poll_network_error
    \/ poll_exception
    \/ poll_sleep
    \/ poll_wake
IsolationTasks ==
    \/ \E h \in Tasks, m \in IsolationMessages : event_message(h, m, "ok")
    \/ \E h \in Tasks, ok \in BOOLEAN : channel_send(h, ok)
    \/ \E h \in Tasks : handle_commands(h)
NextIsolation == IsolationThread \/ IsolationTasks \/ Tick(IsolationInstants)

SpecIsolation ==
    /\ InitPoll /\ [][NextIsolation]_vars
    /\ \A h \in Tasks : WF_vars(\E ok \in BOOLEAN : channel_send(h, ok))
    /\ \A h \in Tasks : WF_vars(handle_commands(h))

\* the watcher and the producer of the join file; the file is on disk and
\* may hold a channel that was written before the bot was started
FileInit ==
    /\ join_file \in {<<>>, <<"bar">>}
    /\ watcher = IdleWatcher
    /\ watch_joins = [c \in Channels |-> 0]
    /\ watch_writes = [c \in Channels |-> 0]
    /\ file_adds = [c \in Channels |-> 0]
InitFile ==
    /\ StoreInit /\ QueueInit /\ BotInit
    /\ FileInit /\ DatabaseInit /\ IngestInit /\ CountInit
    /\ RejoinInit /\ ReadInit
NextFile ==
    \/ WatchStep
    \/ \E c \in Channels, ok \in BOOLEAN : join_new_channel(c, ok)
SpecFile == InitFile /\ [][NextFile]_vars

\* the three writers of channel names side by side: the poll thread with
\* deliveries in both letter cases, the watcher of the join file, and the
\* task of a chat message
CaseMessages == {Message("U2", "foo", <<"M", "e", "o", "w">>, FALSE)}
CaseResponses == {<<"foo">>, <<"Foo", "bar">>}
CaseThread ==
    \/ poll_request
    \/ poll_test_response
    \/ \E channels \in CaseResponses : poll_response(200, channels)
    \/ poll_channel(TRUE)
    \/ poll_sleep
    \/ poll_wake
CaseTasks ==
    \/ \E m \in CaseMessages : event_message(1, m, "ok")
    \/ channel_send(1, TRUE)
    \/ handle_commands(1)
CaseWatcher ==
    \/ add_channel_to_join_list("foo")
    \/ watcher_read
    \/ watcher_channel(TRUE)
    \/ watcher_clear
    \/ watcher_wake
NextCase ==
    \/ CaseThread
    \/ \E c \in Channels : join_new_channel(c, TRUE)
    \/ Tick(IsolationInstants)
    \/ CaseWatcher
    \/ CaseTasks
SpecCase == InitPoll /\ [][NextCase]_vars

\* the reads of the flags on a database of any known schema
NextDrift == ReadStep \/ load_approved_channels_from_db
SpecDrift == InitDrift /\ [][NextDrift]_vars

\* the coordinator's endpoints at one instant of its clock, with requests
\* for one channel
RequestChannels == {"foo"}
NextRequests ==
    \/ \E h \in EnqHandlers, outcome \in AuthOutcomes, login \in RequestChannels :
          authorize_bot(h, outcome, login)
    \/ \E h \in EnqHandlers, hasChannel \in BOOLEAN, channel \in RequestChannels,
          ts \in BodyTimestamps : add_channel_manually(h, hasChannel, channel, ts)
    \/ EnqueueStep
    \/ \E h \in DrainHandlers : get_pending_channels(h)
    \/ DrainStep
    \/ \E h \in DrainHandlers : drain_return(h)

SpecRequests == Init /\ [][NextRequests]_vars

(***************************************************************************)
(* Properties of the counter store.                                        *)
(***************************************************************************)
AllCallsIdle == \A p \in Callers : call[p].pc = "idle"

\* C1: the three sub-updates of one add_meow call are one atomic unit: in
\* every committed state every call has either all of its user_meows,
\* streamer_totals and user_global_stats updates committed or none of them,
\* so a reader always finds a user's global total equal to the sum of that
\* user's per-channel counts.
C1_AtomicUnit ==
    /\ \A p \in Callers : applied[p] \in {{}, SubUpdates}
    /\ \A u \in Users :
          GlobalTotal(user_global_stats, u)
              = SumOver([c \in Channels |-> MeowCount(user_meows, u, c)], Channels)

\* C2: once all concurrent add_meow calls have completed, the channel total
\* is the sum of the amounts passed for the channel and every user's count
\* is the sum of the amounts passed for (user, channel).
C2_IncrementsCompose ==
    AllCallsIdle =>
        /\ \A u \in Users, c \in Channels : MeowCount(user_meows, u, c) = passed[<<u, c>>]
        /\ \A c \in Channels :
              TotalMeows(streamer_totals, c)
                  = SumOver([u \in Users |-> passed[<<u, c>>]], Users)

C2_Witness ==
    /\ AllCallsIdle
    /\ ncalls >= 2
    /\ \E c \in Channels : TotalMeows(streamer_totals, c) > MaxAmount

\* C3: in every committed state the channel total equals the sum of the
\* per-user counts of that channel.
C3_TotalIsSumOfUsers ==
    \A c \in Channels :
        TotalMeows(streamer_totals, c)
            = SumOver([u \in Users |-> MeowCount(user_meows, u, c)], Users)

C3_Witness ==
    \E c \in Channels :
        /\ \A u \in Users : <<u, c>> \in DOMAIN user_meows
        /\ TotalMeows(streamer_totals, c) >= 2

\* C4: a call that fails because storage became unavailable leaves either
\* all three of its counter updates committed or none of them.
C4_FailureAllOrNothing ==
    \A p \in Callers : call[p].pc = "failed" => applied[p] \in {{}, SubUpdates}

C12_IdempotentAcrossPaths ==
    \A c \in Channels :
        file_adds[c] <= 1 =>
            /\ join_calls[c] + watch_joins[c] <= 1
            /\ approve_writes[c] + watch_writes[c] <= 1

(***************************************************************************)
(* Properties of the channel_settings table at start-up.                   *)
(***************************************************************************)
\* the channels the specification of the load names: join_approved set,
\* global_access set, or a channel total above zero
AuthorizedUnion ==
    {c \in DOMAIN channel_settings : channel_settings[c].join_approved}
        \cup {c \in DOMAIN channel_settings : channel_settings[c].global_access}
        \cup {c \in Channels : TotalMeows(streamer_totals, c) > 0}

\* C13: load_approved_channels_from_db returns exactly the channels with
\* join_approved set, the channels with global_access set and the channels
\* whose total is above zero, with or without a channel_settings row.
C13_LoadIsUnion ==
    [][(~loaded.called /\ loaded'.called) => loaded'.channels = AuthorizedUnion]_vars

C13_Witness ==
    /\ loaded.called
    /\ \E c \in loaded.channels :
          c \notin DOMAIN channel_settings /\ TotalMeows(streamer_totals, c) > 0
    /\ \E c \in Channels : c \notin loaded.channels

\* C14: when init_database completes, every channel whose total is above
\* zero has a channel_settings row with join_approved set.
C14_ActiveChannelsApproved ==
    [][(boot.pc = "down" /\ boot'.pc = "ready")
          => \A c \in Channels :
                TotalMeows(streamer_totals', c) > 0
                    => (c \in DOMAIN channel_settings' /\ channel_settings'[c].join_approved)]_vars

\* a start on a database with the legacy column has approved two channels
\* that had totals and no approval
C14_Witness ==
    /\ boot.pc = "ready"
    /\ Cardinality(boot.unapproved) = 2
    /\ \A c \in boot.unapproved :
          c \in DOMAIN channel_settings /\ channel_settings[c].join_approved
    /\ "global_leaderboard_opt_in" \in columns

(***************************************************************************)
(* Properties of the ingest pipeline.                                      *)
(***************************************************************************)
\* the start positions at which the lowercase-folded text holds the pattern
StartPositions(t) ==
    {p \in 1..Len(t) :
        /\ p + Len(Pattern) - 1 <= Len(t)
        /\ \A i \in 1..Len(Pattern) : LowerChar(t[p + i - 1]) = Pattern[i]}
PatternCount(t) == Cardinality(StartPositions(t))

\* for each message that can be dispatched: the number of start positions in
\* its content, and the result of _count_overlapping_meows for its content
MatchesOf == [m \in Messages |-> PatternCount(m.content)]
CountOf == [m \in Messages |-> count_overlapping_meows(m.content)]

\* the messages of the inbox that the pipeline has to count: not an echo,
\* not written by the bot, and holding the pattern at least once
Counted == {i \in 1..Len(inbox) :
               /\ ~inbox[i].echo
               /\ Lower(inbox[i].author) # BotName
               /\ MatchesOf[inbox[i]] > 0}
CallsFor(i) == {k \in 1..Len(record_calls) : record_calls[k].msg = i}

\* C15: any two acknowledgements sent in one channel are more than the
\* cooldown of 5 seconds apart, under every interleaving of the handlers of
\* that channel, handlers suspended at the send included.
C15_RepliesApart ==
    \A r1 \in replies, r2 \in replies :
        (r1.channel = r2.channel /\ r1.msg # r2.msg /\ r1.at <= r2.at)
            => r2.at - r1.at > CooldownTicks

\* C16: every message that is not written by the bot and holds the pattern
\* at least once results in an add_meow call, whatever the rate limiter
\* holds for its channel; only the acknowledgement is skipped.
C16_CountingNotSuppressed ==
    \A i \in Counted : CallsFor(i) # {}

\* a handler whose acknowledgement was skipped by the rate limiter, with the
\* add_meow call of its message made
C16_Witness ==
    \E h \in Tasks :
        /\ msgs[h].limited
        /\ msgs[h].channel \in DOMAIN rate_limiter
        /\ msgs[h].id \in Counted
        /\ CallsFor(msgs[h].id) # {}

\* the sum of the amounts of the committed calls that satisfy a condition
CommittedSum(Keep(_)) ==
    SumOver([k \in 1..Len(record_calls) |->
                IF Keep(record_calls[k]) THEN record_calls[k].count ELSE 0],
            1..Len(record_calls))

\* C18: a message holding the pattern N > 0 times produces exactly one
\* add_meow call, whose amount is N as counted by _count_overlapping_meows,
\* and so one update of +N to each counter, never N updates of +1.
C18_OneCallOfN ==
    /\ \A i \in Counted :
          /\ Cardinality(CallsFor(i)) = 1
          /\ \A k \in CallsFor(i) :
                record_calls[k].count = CountOf[inbox[i]]
    /\ \A k \in 1..Len(record_calls) : record_calls[k].msg \in Counted
    /\ \A u \in Users, c \in Channels :
          LET OfUserChannel(r) == r.outcome # "error" /\ r.user_id = u /\ r.channel = c
          IN MeowCount(user_meows, u, c) = CommittedSum(OfUserChannel)
    /\ \A c \in Channels :
          LET OfChannel(r) == r.outcome # "error" /\ r.channel = c
          IN TotalMeows(streamer_totals, c) = CommittedSum(OfChannel)
    /\ \A u \in Users :
          LET OfUser(r) == r.outcome = "ok" /\ r.user_id = u
          IN GlobalTotal(user_global_stats, u) = CommittedSum(OfUser)

\* a message holding the pattern twice has been recorded by a call that
\* committed
C18_Witness ==
    \E k \in 1..Len(record_calls) :
        /\ record_calls[k].count = 2
        /\ record_calls[k].outcome = "ok"
        /\ MeowCount(user_meows, record_calls[k].user_id, record_calls[k].channel) >= 2
        /\ MatchesOf[inbox[record_calls[k].msg]] = 2

(***************************************************************************)
(* Properties of the pattern counter.                                      *)
(***************************************************************************)
\* C17: _count_overlapping_meows(text) is the number of start positions at
\* which the lowercase-folded text holds "meow", overlapping occurrences
\* each counted; hence the count of a text is the count of its lowercase
\* form.
C17_CountIsStartPositions ==
    counted >= 0 =>
        /\ counted = PatternCount(text)
        /\ counted = count_overlapping_meows(StrLower(text))

\* a text with upper-case letters that holds the pattern twice
C17_Witness ==
    /\ counted = 2
    /\ text # StrLower(text)
    /\ Len(text) >= 2 * Len(Pattern)

(***************************************************************************)
(* Properties of the counters over the life of the database file.          *)
(***************************************************************************)
\* C19: the user-channel counts, the channel totals and the user global
\* totals are never negative, and no step of add_meow, of the flag setters
\* or of init_database removes a counter or lowers it.
C19_CountersMonotone ==
    [][/\ \A k \in DOMAIN user_meows' : user_meows'[k] >= 0
       /\ \A c \in DOMAIN streamer_totals' : streamer_totals'[c] >= 0
       /\ \A u \in DOMAIN user_global_stats' : user_global_stats'[u].total_meows >= 0
       /\ \A k \in DOMAIN user_meows :
             k \in DOMAIN user_meows' /\ user_meows'[k] >= user_meows[k]
       /\ \A c \in DOMAIN streamer_totals :
             c \in DOMAIN streamer_totals' /\ streamer_totals'[c] >= streamer_totals[c]
       /\ \A u \in DOMAIN user_global_stats :
             /\ u \in DOMAIN user_global_stats'
             /\ user_global_stats'[u].total_meows >= user_global_stats[u].total_meows]_vars

\* the process was started again on a database that holds counts, and a
\* flag setter has written a row since
C19_Witness ==
    /\ boot.pc = "ready"
    /\ boot.unapproved # {}
    /\ \E c \in DOMAIN channel_settings : ~channel_settings[c].join_approved
    /\ \E k \in DOMAIN user_meows : user_meows[k] >= 2
    /\ \E u \in DOMAIN user_global_stats : user_global_stats[u].total_meows >= 2

\* C20: starting from an empty store, after every completed add_meow call
\* every user's global total equals the sum of that user's counts over all
\* channels.
C20_GlobalIsSumAfterCall ==
    (\E p \in Callers : call[p].pc = "returned")
        => \A u \in Users :
              GlobalTotal(user_global_stats, u)
                  = SumOver([c \in Channels |-> MeowCount(user_meows, u, c)], Channels)

\* C21: when an add_meow call for a user completes, the channels_count of
\* that user's global row is the number of distinct channels in which the
\* user has a user_meows row, also while another call for the same user in
\* another channel is running.
C21_ChannelsCountRecomputed ==
    [][\A p \in Callers :
          (call[p].pc # "returned" /\ call'[p].pc = "returned")
              => /\ call[p].user \in DOMAIN user_global_stats'
                 /\ user_global_stats'[call[p].user].channels_count
                       = ChannelsCount(user_meows', call[p].user)]_vars

\* a call has completed with two channels counted while the other call of
\* the same user, in the other channel, is between its two transactions
C21_Witness ==
    \E p \in Callers, q \in Callers :
        /\ p # q
        /\ call[p].pc = "returned"
        /\ call[q].pc = "global_stats"
        /\ call[q].user = call[p].user
        /\ call[q].channel # call[p].channel
        /\ user_global_stats[call[p].user].channels_count = 2

(***************************************************************************)
(* Properties of what the poll loop persists.                              *)
(***************************************************************************)
\* C22: when the poll loop has gone through a response, every channel of it
\* that was neither processed nor connected, and for which it scheduled the
\* join, has a channel_settings row with join_approved and global_access set.
C22_BothFlagsPersisted ==
    bot.pc = "sleep" =>
        \A c \in attempted :
            /\ c \in DOMAIN channel_settings
            /\ channel_settings[c].join_approved
            /\ channel_settings[c].global_access

\* C23: the poll loop records a channel as approved only when the join of
\* that channel has succeeded: once the join it scheduled has finished, a
\* channel it has written as approved is connected.
C23_OnlySuccessfulJoinsPersisted ==
    \A c \in Channels :
        (approve_writes[c] > 0 /\ joins_pending[c] = 0) => c \in connected_channels

(***************************************************************************)
(* Properties of the rejoin at start-up.                                   *)
(***************************************************************************)
\* C24: join_approved_channels calls join_new_channel exactly once for every
\* loaded channel that was not connected and for no other channel, one
\* channel after the other; a join that fails does not stop the loop.
C24_RejoinEachOnce ==
    /\ \A c \in Channels : rejoin_attempts[c] <= 1
    /\ rejoin.pc = "loop" =>
          \A c \in Channels :
              rejoin_attempts[c] = 1 <=>
                  \E i \in 1..(rejoin.idx - 1) :
                      /\ rejoin.channels_to_join[i] = c
                      /\ c \notin rejoin.current_channels
    /\ rejoin.pc = "done" =>
          \A c \in Channels :
              rejoin_attempts[c] =
                  IF c \in loaded.channels \ rejoin.current_channels THEN 1 ELSE 0

\* the join of the first channel failed and the second channel was joined
C24_Witness ==
    /\ rejoin.pc = "done"
    /\ Len(rejoin.channels_to_join) = 2
    /\ rejoin_attempts[rejoin.channels_to_join[1]] = 1
    /\ rejoin.channels_to_join[1] \notin connected_channels
    /\ rejoin_attempts[rejoin.channels_to_join[2]] = 1
    /\ rejoin.channels_to_join[2] \in connected_channels

(***************************************************************************)
(* Properties of the leaderboard and of the access check.                  *)
(***************************************************************************)
\* a channel whose stored global_access flag is set
FlagSet(c) == c \in DOMAIN channel_settings /\ channel_settings[c].global_access
\* the channels that may appear on the global leaderboard
Eligible == {c \in DOMAIN streamer_totals : FlagSet(c) \/ c \in default_channels}
OnBoard == {board.rows[i][1] : i \in 1..Len(board.rows)}

\* C28: get_global_leaderboard(limit) returns at most limit rows (channel,
\* total) in descending order of total; every channel returned has
\* global_access set or is a default channel; a default channel with a
\* total is eligible whatever its flag: the rows are the eligible channels
\* with the highest totals.
C28_GlobalLeaderboard ==
    board.called =>
        /\ Len(board.rows) <= board.limit
        /\ \A i, j \in 1..Len(board.rows) :
              i < j => /\ board.rows[i][2] >= board.rows[j][2]
                       /\ board.rows[i][1] # board.rows[j][1]
        /\ \A i \in 1..Len(board.rows) :
              /\ board.rows[i][1] \in Eligible
              /\ board.rows[i][2] = streamer_totals[board.rows[i][1]]
        /\ \A c \in Eligible \ OnBoard :
              /\ Len(board.rows) = board.limit
              /\ \A i \in 1..Len(board.rows) : board.rows[i][2] >= streamer_totals[c]

\* a default channel whose flag is not set is on a full leaderboard that
\* left an eligible channel out
C28_Witness ==
    /\ board.called
    /\ board.limit = 2
    /\ Len(board.rows) = 2
    /\ "snorlaxbuffet" \in OnBoard
    /\ "snorlaxbuffet" \in DOMAIN channel_settings
    /\ ~channel_settings["snorlaxbuffet"].global_access
    /\ Eligible \ OnBoard # {}

\* C29: has_global_access(channel) is true for a default channel whatever
\* is stored, no row included; for any other channel it is true exactly
\* when the global_access of its row or its legacy global_leaderboard_opt_in
\* is set.
C29_HasGlobalAccess ==
    access.called =>
        access.result =
            IF access.channel \in default_channels THEN TRUE
            ELSE FlagSet(access.channel) \/ access.channel \in legacy_opt_in

\* true for a default channel whose row has the flag cleared, and for a
\* default channel without a row
C29_Witness ==
    /\ access.called
    /\ access.result
    /\ access.channel \in default_channels
    /\ \/ access.channel \notin DOMAIN channel_settings
       \/ ~channel_settings[access.channel].global_access
    /\ access.channel \notin legacy_opt_in

(***************************************************************************)
(* Properties of the coordinator's endpoints.                              *)
(***************************************************************************)
\* C25: a channel enqueued through add_channel_manually with a body that
\* holds only the channel is delivered like any other: a drain called
\* after it, inside the retention window, answers 200 with an entry of
\* that channel.
C25_ManualDelivered ==
    \A h \in DrainHandlers : \A e \in enqueued :
        (/\ e.timestamp = Manual
         /\ AnsweredAfter(h, e)
         /\ drn[h].current_time - e.at < RetentionTicks)
            => /\ drn[h].status = 200
               /\ \E x \in SeqToSet(drn[h].to_send) : x.channel = e.channel

C27_EnqueueAfterBothSteps ==
    [][\A h \in EnqHandlers :
          /\ \A login \in Channels, outcome \in {"token_failed", "user_failed"} :
                authorize_bot(h, outcome, login)
                    => /\ enq'[h].status \notin {0, 200}
                       /\ Pending' = Pending
                       /\ enqueued' = enqueued
          /\ (/\ enq[h].via = "authorize"
              /\ enq[h].pc = "append"
              /\ enq'[h].status = 200)
                => \E e \in enqueued' \ enqueued :
                      /\ e.channel = enq[h].entry.channel
                      /\ Pending' = Append(Pending, e)]_vars

(***************************************************************************)
(* Properties of the migration at start-up.                                *)
(***************************************************************************)
\* C30: init_database on an older database adds the missing columns and
\* deletes nothing: the counters are unchanged, every channel_settings row
\* is still there with the flags it had, the flags of the legacy column
\* global_leaderboard_opt_in are carried over into global_access, and every
\* channel whose total is above zero is approved.
C30_MigrationKeepsData ==
    [][(boot.pc = "down" /\ boot'.pc = "ready")
          => /\ {"join_approved", "global_access"} \subseteq columns'
             /\ "channel_settings" \in tables => columns \subseteq columns'
             /\ user_meows' = user_meows
             /\ streamer_totals' = streamer_totals
             /\ user_global_stats' = user_global_stats
             /\ \A c \in DOMAIN channel_settings :
                   /\ c \in DOMAIN channel_settings'
                   /\ channel_settings[c].join_approved => channel_settings'[c].join_approved
                   /\ channel_settings[c].global_access => channel_settings'[c].global_access
             /\ \A c \in legacy_opt_in :
                   c \in DOMAIN channel_settings' /\ channel_settings'[c].global_access
             /\ \A c \in Channels :
                   TotalMeows(streamer_totals', c) > 0
                       => (c \in DOMAIN channel_settings' /\ channel_settings'[c].join_approved)]_vars

\* the tables, the columns and the flags a run of init_database leaves when
\* it starts on the given database
InitResult(cs, cols, legacy, st, tbls) ==
    LET m == AutoMigrate(cs, IF "channel_settings" \in tbls THEN cols ELSE CurrentColumns,
                         legacy, st, tbls)
    IN [tables |-> AllTables, columns |-> m.columns, channel_settings |-> m.channel_settings]

\* C31: init_database is idempotent: on the database a run of init_database
\* has left, a second run leaves the same tables, columns, counters and flags.
C31_InitIdempotent ==
    [][(boot.pc = "down" /\ boot'.pc = "ready")
          => /\ InitResult(channel_settings, columns, legacy_opt_in, streamer_totals, tables)
                   = [tables |-> tables', columns |-> columns',
                      channel_settings |-> channel_settings']
             /\ InitResult(channel_settings', columns', legacy_opt_in', streamer_totals', tables')
                   = [tables |-> tables', columns |-> columns',
                      channel_settings |-> channel_settings']
             /\ user_meows' = user_meows
             /\ streamer_totals' = streamer_totals
             /\ user_global_stats' = user_global_stats]_vars

(***************************************************************************)
(* Properties of the reads on a drifted schema.                            *)
(***************************************************************************)
\* the channels the legacy column makes eligible for the leaderboard
LegacyEligible == {c \in DOMAIN streamer_totals : c \in legacy_opt_in \/ c \in default_channels}

PollInFlight == bot.pc \in {"test_wait", "wait"}

\* C33: the handling of a chat message never waits for the coordinator:
\* wherever the poll thread is, a new message can be taken, a task that has
\* counted can send its reply and go on to the commands, and every task that
\* was started finishes, even when a poll request is never answered.
C33_IngestNeverWaits ==
    /\ [](\A h \in Tasks :
            /\ (FirstFree(h) /\ Len(inbox) < MaxMsgs)
                  => \A m \in IsolationMessages : ENABLED event_message(h, m, "ok")
            /\ msgs[h].pc = "send" => ENABLED channel_send(h, TRUE)
            /\ msgs[h].pc = "commands" => ENABLED handle_commands(h))
    /\ [][\A h \in Tasks : msgs'[h] # msgs[h] => UNCHANGED botVars]_vars
    /\ \A h \in Tasks : (msgs[h].pc # "idle") ~> (msgs[h].pc = "idle")

\* the first request of the poll thread is still unanswered after a poll
\* interval and a message of that time has been counted and answered
C33_Witness ==
    /\ bot.pc = "test_wait"
    /\ now >= PollTicks
    /\ \E r \in replies : r.at = now
    /\ \A h \in Tasks : msgs[h].pc = "idle"

(***************************************************************************)
(* Properties of the messages of the bot itself.                           *)
(***************************************************************************)
\* the messages of the inbox that are echoes or carry the bot's name
OwnMessages == {i \in 1..Len(inbox) : inbox[i].echo \/ Lower(inbox[i].author) = BotName}

\* C34: a message written by the bot itself, an echo or a message under the
\* bot's name in any letter case, changes no counter and is never
\* acknowledged, whatever its text: no add_meow call and no reply belongs to
\* it, no task is started for it, and while the inbox holds nothing else all
\* counters are empty.
C34_OwnMessagesIgnored ==
    /\ \A i \in OwnMessages :
          /\ CallsFor(i) = {}
          /\ \A r \in replies : r.msg # i
          /\ \A h \in Tasks : msgs[h].id # i
    /\ OwnMessages = 1..Len(inbox) =>
          /\ user_meows = EmptyTable
          /\ streamer_totals = EmptyTable
          /\ user_global_stats = EmptyTable
          /\ replies = {}

\* an echo and a message under the bot's name with capital letters, both
\* holding the pattern, have been handled
C34_Witness ==
    /\ Len(inbox) = 2
    /\ \E i, j \in 1..2 :
          /\ inbox[i].echo /\ MatchesOf[inbox[i]] > 0
          /\ ~inbox[j].echo /\ inbox[j].author # BotName /\ MatchesOf[inbox[j]] > 0
          /\ j \in OwnMessages
    /\ streamer_totals = EmptyTable

(***************************************************************************)
(* Properties of a failed acknowledgement.                                 *)
(***************************************************************************)
\* C35: a send that fails is dropped without other effect: the counters
\* incremented for the message stay as they are, no reply and no stamp of
\* the rate limiter is recorded, the handler goes on to the commands and
\* ends, and every later message, in this and in any other channel, is
\* still counted.
C35_FailedSendDropped ==
    /\ [][\A h \in Tasks :
            channel_send(h, FALSE)
                => /\ user_meows' = user_meows
                   /\ streamer_totals' = streamer_totals
                   /\ user_global_stats' = user_global_stats
                   /\ record_calls' = record_calls
                   /\ replies' = replies
                   /\ rate_limiter' = rate_limiter
                   /\ msgs'[h] = [msgs[h] EXCEPT !.pc = "commands"]
                   /\ \A g \in Tasks \ {h} : msgs'[g] = msgs[g]]_vars
    /\ [](\A h \in Tasks : msgs[h].pc = "commands" => ENABLED handle_commands(h))
    /\ [](\A i \in Counted :
            /\ CallsFor(i) # {}
            /\ \A k \in CallsFor(i) :
                  record_calls[k].outcome = "ok"
                      => TotalMeows(streamer_totals, record_calls[k].channel)
                            >= record_calls[k].count)

\* the send for the first message failed: its call is committed, its task
\* has ended and it has no reply; a later message of another channel has
\* been counted and answered
C35_Witness ==
    /\ Len(inbox) = 2
    /\ 1 \in Counted
    /\ \A k \in CallsFor(1) : record_calls[k].outcome = "ok"
    /\ \A r \in replies : r.msg # 1
    /\ \A h \in Tasks : msgs[h].pc = "idle"
    /\ Lower(inbox[2].channel) # Lower(inbox[1].channel)
    /\ 2 \in Counted
    /\ \A k \in CallsFor(2) : record_calls[k].outcome = "ok"
    /\ \E r \in replies : r.msg = 2

(***************************************************************************)
(* Properties of a redundant delivery.                                     *)
(***************************************************************************)
\* C36: a delivered channel that is already connected is a successful no-op
\* of the poll loop: no join is scheduled, nothing is written to
\* channel_settings, the loop goes on with the next channel, and the channel
\* is marked processed; a channel that is marked processed is skipped in
\* the same way.
C36_ConnectedIsNoOp ==
    [][\A db_ok \in BOOLEAN :
          (/\ poll_channel(db_ok)
           /\ \/ Lower(bot.channels[bot.idx]) \in connected_channels
              \/ Lower(bot.channels[bot.idx]) \in poll_processed)
              => /\ join_calls' = join_calls
                 /\ joins_pending' = joins_pending
                 /\ channel_settings' = channel_settings
                 /\ approve_writes' = approve_writes
                 /\ connected_channels' = connected_channels
                 /\ Lower(bot.channels[bot.idx]) \in poll_processed'
                 /\ bot' = [bot EXCEPT !.idx = @ + 1]]_vars

\* a channel that was connected from the start has been delivered twice and
\* skipped both times
C36_Witness ==
    \E c \in connected_channels :
        /\ c \in poll_processed
        /\ c \in redelivered
        /\ join_calls[c] = 0
        /\ approve_writes[c] = 0
        /\ c \notin DOMAIN channel_settings

(***************************************************************************)
(* Properties of the coordinator's reads.                                  *)
(***************************************************************************)
\* queue_status evaluates float(channel.get('timestamp', 0)) for every
\* pending entry outside any try: the status of its answer on the list q
queue_status(q) ==
    IF \E i \in 1..Len(q) : ~q[i].timestamp.parses THEN 500 ELSE 200

\* C37: get_pending_channels and queue_status answer 200 in every state of
\* the queue that authorize_bot, add_channel_manually and the drains can
\* produce.
C37_ReadsAlwaysAnswer ==
    /\ \A h \in DrainHandlers : drn[h].pc = "done" => drn[h].status = 200
    /\ queue_status(Pending) = 200

(***************************************************************************)
(* Properties of the flag setters.                                         *)
(***************************************************************************)
\* C38: opt_into_global changes only the global_access of a channel: a row
\* that had join_approved set still has it, and its bot_enabled and
\* setup_date are as before; approve_channel_join leaves global_access as
\* it was.
C38_SettersChangeOneFlag ==
    [][\A c \in Channels :
          /\ (opt_into_global(c) /\ c \in DOMAIN channel_settings)
                => /\ channel_settings'[c].global_access
                   /\ channel_settings'[c].join_approved = channel_settings[c].join_approved
                   /\ channel_settings'[c].bot_enabled = channel_settings[c].bot_enabled
                   /\ channel_settings'[c].setup_date = channel_settings[c].setup_date
          /\ (approve_channel_join(c) /\ c \in DOMAIN channel_settings)
                => /\ channel_settings'[c].join_approved
                   /\ channel_settings'[c].global_access = channel_settings[c].global_access]_vars

(***************************************************************************)
(* Properties of the join file.                                            *)
(***************************************************************************)
\* C39: no channel handed over through the join file is lost: a channel that
\* add_channel_to_join_list has appended is still in the file, or is in the
\* list the watcher has read, or has been scheduled for joining by the
\* watcher, or is connected.
C39_FileChannelNotLost ==
    \A c \in Channels :
        file_adds[c] > 0 =>
            \/ c \in SeqToSet(join_file)
            \/ watcher.pc = "process" /\ c \in SeqToSet(watcher.channels)
            \/ watch_joins[c] > 0
            \/ c \in connected_channels

(***************************************************************************)
(* Properties of the letter case of channel names.                         *)
(***************************************************************************)
Canonical(c) == Lower(c) = c
StoredChannels ==
    {k[2] : k \in DOMAIN user_meows} \cup DOMAIN streamer_totals
        \cup DOMAIN channel_settings \cup connected_channels \cup poll_processed
        \cup SeqToSet(join_file)

====
